---- MODULE Spec2Model ----
(***************************************************************************)
(* Frelancia (Mostaql job notifier): the browser extension's background    *)
(* worker (checkForNewJobs, applyFilters, isQuietHour), the extension's    *)
(* SignalR client (SignalRClient.handleNewJobs) and the ASP.NET server's   *)
(* JobScraperService (CheckForNewJobsAsync over a HashSet of seen ids).    *)
(*                                                                         *)
(* A text is a sequence of characters; a character is a one-letter string, *)
(* or, for an Arabic letter, the letter's name ("ba", "ain", ...), because  *)
(* the module is ASCII.  A missing (undefined) field of a job or of the    *)
(* settings is the empty text: both are falsy in the code's tests.         *)
(***************************************************************************)
EXTENDS Integers, Sequences, FiniteSets, TLC

VARIABLES
    mode,        \* which program of the repository runs in this behaviour
    qhIn,        \* isQuietHour: the settings and the wall clock it reads
    qhOut,       \* isQuietHour: its result, "none" before the call
    flJob,       \* applyFilters: the listing
    flSettings,  \* applyFilters: the criteria snapshot
    flNow,       \* applyFilters: the clock calculateClientAgeDays reads
    flOut,       \* applyFilters: its result, "none" before the call
    flPrev,      \* applyFilters: the result before the last criterion was enabled
    srvSeen,     \* server: _seenJobIds, a HashSet: [entries, free]
    srvPc,       \* server: where ExecuteAsync / CheckForNewJobsAsync stands
    srvPage,     \* server: the listings FetchJobsAsync returned this cycle
    srvJobs,     \* server: newJobs
    srvIdx,      \* server: the index in newJobs of the job being enriched
    srvEnriched, \* server: enrichedJobs
    srvBatch,    \* server: the ids of the NewJobsDetected message of this cycle
    srvHistory,  \* server: the ids added to _seenJobIds, latest addition last
    srvPrev,     \* server: the page of the cycle that completed before this one
    srvStopping, \* server: stoppingToken has been cancelled
    srvFailed,   \* server: the latest cycle met an exception
    conns,       \* hub: the connections Clients.All reaches
    sent,        \* hub: the messages the last step sent, with their delivery
    storedSeen,  \* extension: seenJobs in chrome.storage.local
    cyc,         \* extension: the running invocations of checkForNewJobs
    push,        \* extension: the running invocation of handleNewJobs
    shown,       \* extension: the ids the last step called showNotification with
    notified,    \* extension: the stored ids notified since they were stored
    suppressed,  \* extension: the ids whose notification quiet hours suppressed
    loudInQuiet, \* extension: a notification followed a clock read inside quiet hours
    alarms,      \* extension: the alarms chrome.alarms holds, [name, periodInMinutes]
    storedStats, \* extension: stats.todayCount in chrome.storage.local
    cl,          \* extension: the SignalRClient object and its HubConnection
    enr,         \* the merge of detail fields: the details, the listing after it
    retryContext \* automatic reconnect: the retry loop of the HubConnection

pureVars == <<qhIn, qhOut, flJob, flSettings, flNow, flOut, flPrev>>

srvVars ==
    <<srvSeen, srvPc, srvPage, srvJobs, srvIdx, srvEnriched, srvBatch, srvHistory,
      srvPrev, srvStopping, srvFailed, conns, sent>>

extVars == <<storedSeen, cyc, push, shown, notified, suppressed, loudInQuiet>>

bgVars == <<alarms, storedStats>>

cliVars == <<cl>>

vars == <<mode, pureVars, srvVars, extVars, cliVars, bgVars, enr, retryContext>>

(***************************************************************************)
(* Texts                                                                   *)
(***************************************************************************)
Digits == <<"0", "1", "2", "3", "4", "5", "6", "7", "8", "9">>

IsDigit(c) == \E i \in 1..10 : Digits[i] = c

DigitVal(c) == (CHOOSE i \in 1..10 : Digits[i] = c) - 1

UpperLetters ==
    <<"A", "B", "C", "D", "E", "F", "G", "H", "I", "J", "K", "L", "M",
      "N", "O", "P", "Q", "R", "S", "T", "U", "V", "W", "X", "Y", "Z">>

LowerLetters ==
    <<"a", "b", "c", "d", "e", "f", "g", "h", "i", "j", "k", "l", "m",
      "n", "o", "p", "q", "r", "s", "t", "u", "v", "w", "x", "y", "z">>

\* String.prototype.toLowerCase, one character
LowerChar(c) ==
    IF \E i \in 1..Len(UpperLetters) : UpperLetters[i] = c
    THEN LowerLetters[CHOOSE i \in 1..Len(UpperLetters) : UpperLetters[i] = c]
    ELSE c

\* String.prototype.toLowerCase
toLowerCase(s) == [i \in 1..Len(s) |-> LowerChar(s[i])]

\* String.prototype.includes
includes(hay, needle) ==
    \E i \in 0..(Len(hay) - Len(needle)) :
        SubSeq(hay, i + 1, i + Len(needle)) = needle

RECURSIVE TrimStart(_)
TrimStart(s) ==
    IF s # <<>> /\ s[1] = " " THEN TrimStart(Tail(s)) ELSE s

RECURSIVE TrimEnd(_)
TrimEnd(s) ==
    IF s # <<>> /\ s[Len(s)] = " " THEN TrimEnd(SubSeq(s, 1, Len(s) - 1)) ELSE s

\* String.prototype.trim
trim(s) == TrimEnd(TrimStart(s))

RECURSIVE SplitFrom(_, _, _)
\* the pieces of s, cur being the piece read so far
SplitFrom(s, sep, cur) ==
    IF s = <<>> THEN <<cur>>
    ELSE IF s[1] = sep THEN <<cur>> \o SplitFrom(Tail(s), sep, <<>>)
    ELSE SplitFrom(Tail(s), sep, Append(cur, s[1]))

\* String.prototype.split with a one-character separator
split(s, sep) == SplitFrom(s, sep, <<>>)

\* budgetText.replace(/,/g, '')
RemoveCommas(s) == SelectSeq(s, LAMBDA c : c # ",")

RECURSIVE DigitRunEnd(_, _)
\* the index of the last digit of the run of digits that starts at i
DigitRunEnd(s, i) ==
    IF i < Len(s) /\ IsDigit(s[i + 1]) THEN DigitRunEnd(s, i + 1) ELSE i

RECURSIVE DigitsToNat(_)
DigitsToNat(ds) ==
    IF ds = <<>> THEN 0
    ELSE 10 * DigitsToNat(SubSeq(ds, 1, Len(ds) - 1)) + DigitVal(ds[Len(ds)])

RECURSIVE Pow10(_)
Pow10(k) == IF k = 0 THEN 1 ELSE 10 * Pow10(k - 1)

\* the index where the match of /\d+(\.\d+)?/ that starts at digit i ends
NumberMatchEnd(s, i) ==
    LET e == DigitRunEnd(s, i)
    IN  IF e + 2 <= Len(s) /\ s[e + 1] = "." /\ IsDigit(s[e + 2])
        THEN DigitRunEnd(s, e + 2)
        ELSE e

RECURSIVE NumberMatches(_, _)
\* s.match(/\d+(\.\d+)?/g) from position i on (no match: the empty sequence)
NumberMatches(s, i) ==
    IF i > Len(s) THEN <<>>
    ELSE IF IsDigit(s[i])
         THEN LET e == NumberMatchEnd(s, i)
              IN  <<SubSeq(s, i, e)>> \o NumberMatches(s, e + 1)
         ELSE NumberMatches(s, i + 1)

(***************************************************************************)
(* Numbers: a JavaScript number read from decimal digits is the exact      *)
(* fraction n / d, d a power of ten.                                       *)
(***************************************************************************)
Num(v) == [n |-> v, d |-> 1]

NumLt(a, b) == a.n * b.d < b.n * a.d

NumGt(a, b) == NumLt(b, a)

\* parseFloat of a text matched by /\d+(\.\d+)?/
parseFloat(m) ==
    LET e == DigitRunEnd(m, 1)
        frac == IF e < Len(m) THEN SubSeq(m, e + 2, Len(m)) ELSE <<>>
    IN  [n |-> DigitsToNat(SubSeq(m, 1, e) \o frac), d |-> Pow10(Len(frac))]

RECURSIVE MaxNum(_)
\* Math.max(...values), values not empty
MaxNum(values) ==
    IF Len(values) = 1 THEN values[1]
    ELSE LET rest == MaxNum(Tail(values))
         IN  IF NumLt(values[1], rest) THEN rest ELSE values[1]

\* a JavaScript integer result: NaN, or the value v
NaN == [isNaN |-> TRUE, v |-> 0]

Int32(v) == [isNaN |-> FALSE, v |-> v]

\* parseInt of one space-free token: an optional minus, then leading digits
parseInt(tok) ==
    LET neg == tok # <<>> /\ tok[1] = "-"
        body == IF neg THEN Tail(tok) ELSE tok
    IN  IF body # <<>> /\ IsDigit(body[1])
        THEN LET v == DigitsToNat(SubSeq(body, 1, DigitRunEnd(body, 1)))
             IN  Int32(IF neg THEN 0 - v ELSE v)
        ELSE NaN

\* Number of a text of digits, as "HH:MM".split(':').map(Number) applies it
Number(tok) ==
    IF tok = <<>> THEN Int32(0)
    ELSE IF \A i \in 1..Len(tok) : IsDigit(tok[i]) THEN Int32(DigitsToNat(tok))
    ELSE NaN

(***************************************************************************)
(* Dates: new Date(year, month, day) as a day number (days since 1 January *)
(* of year 1 of the proleptic Gregorian calendar); the local time zone has *)
(* no daylight-saving shift between the two dates.                         *)
(***************************************************************************)
IsLeap(y) == (y % 4 = 0 /\ y % 100 # 0) \/ y % 400 = 0

MonthLengths(y) ==
    <<31, IF IsLeap(y) THEN 29 ELSE 28, 31, 30, 31, 30, 31, 31, 30, 31, 30, 31>>

RECURSIVE DaysBeforeMonth(_, _)
DaysBeforeMonth(y, month0) ==
    IF month0 = 0 THEN 0
    ELSE DaysBeforeMonth(y, month0 - 1) + MonthLengths(y)[month0]

DaysBeforeYear(y) ==
    365 * (y - 1) + ((y - 1) \div 4) - ((y - 1) \div 100) + ((y - 1) \div 400)

\* new Date(year, month, day): a year 0..99 means 1900 + year, a day outside
\* the month rolls over into the neighbouring months
DateDay(year, month0, day) ==
    LET y == IF year >= 0 /\ year <= 99 THEN 1900 + year ELSE year
    IN  DaysBeforeYear(y) + DaysBeforeMonth(y, month0) + (day - 1)

\* new Date(): the day, and whether the time of day is after 00:00:00.000
Clock(year, month0, day, afterMidnight) ==
    [day |-> DateDay(year, month0, day), partial |-> afterMidnight]

(***************************************************************************)
(* Arabic words of the site                                                *)
(***************************************************************************)
\* 'بعد', the word the code looks for in "لم يحسب بعد" (not calculated yet)
W_baad == <<"ba", "ain", "dal">>

W_notCalculatedYet ==
    <<"lam", "mim", " ", "ya", "hha", "sin", "ba", " ">> \o W_baad

\* "يوم واحد" (one day)
W_oneDay == <<"ya", "waw", "mim", " ", "waw", "alif", "hha", "dal">>

\* "أيام" (days)
W_days == <<"alif_hamza", "ya", "alif", "mim">>

\* "غير محدد" (not specified)
W_unspecified == <<"ghain", "ya", "ra", " ", "mim", "hha", "dal", "dal">>

\* the keys of arabicMonths, in the order of their values 0..11
arabicMonths ==
    << <<"ya", "nun", "alif", "ya", "ra">>,
       <<"fa", "ba", "ra", "alif", "ya", "ra">>,
       <<"mim", "alif", "ra", "sin">>,
       <<"alif_hamza", "ba", "ra", "ya", "lam">>,
       <<"mim", "alif", "ya", "waw">>,
       <<"ya", "waw", "nun", "ya", "waw">>,
       <<"ya", "waw", "lam", "ya", "waw">>,
       <<"alif_hamza", "ghain", "sin", "tta", "sin">>,
       <<"sin", "ba", "ta", "mim", "ba", "ra">>,
       <<"alif_hamza", "kaf", "ta", "waw", "ba", "ra">>,
       <<"nun", "waw", "fa", "mim", "ba", "ra">>,
       <<"dal", "ya", "sin", "mim", "ba", "ra">> >>

\* arabicMonths[monthName] for a name that is no key of the table
undefined == 0 - 1

\* arabicMonths[monthName]
MonthOf(monthName) ==
    IF \E i \in 1..12 : arabicMonths[i] = monthName
    THEN (CHOOSE i \in 1..12 : arabicMonths[i] = monthName) - 1
    ELSE undefined

(***************************************************************************)
(* The filter (background worker)                                          *)
(***************************************************************************)
parseHiringRate(rateText) ==
    IF rateText = <<>> THEN Num(0)
    ELSE IF includes(rateText, W_baad) THEN Num(0)
    ELSE LET matches == NumberMatches(RemoveCommas(rateText), 1)
         IN  IF matches # <<>> THEN parseFloat(matches[1]) ELSE Num(0)

parseDurationDays(durationText) ==
    LET digitAt == {i \in 1..Len(durationText) : IsDigit(durationText[i])}
    IN  IF digitAt # {}
        THEN LET i == CHOOSE j \in digitAt : \A k \in digitAt : j <= k
             IN  DigitsToNat(SubSeq(durationText, i, DigitRunEnd(durationText, i)))
        ELSE IF includes(durationText, W_oneDay) THEN 1
        ELSE 0

calculateClientAgeDays(dateText, now) ==
    LET parts == split(dateText, " ")
    IN  IF Len(parts) < 3 THEN 0 - 1
        ELSE LET day == parseInt(parts[1])
                 year == parseInt(parts[3])
                 month == MonthOf(parts[2])
             IN  IF day.isNaN \/ month = undefined \/ year.isNaN THEN 0 - 1
                 ELSE LET regDate == DateDay(year.v, month, day.v)
                      IN  IF regDate > now.day
                          THEN regDate - now.day
                          ELSE (now.day - regDate) + (IF now.partial THEN 1 ELSE 0)

\* the first number of the text taken instead of the highest
parseBudgetValueFirst(budgetText) ==
    IF budgetText = <<>> THEN Num(0)
    ELSE LET matches == NumberMatches(RemoveCommas(budgetText), 1)
         IN  IF matches = <<>> THEN Num(0) ELSE parseFloat(matches[1])

parseBudgetValue(budgetText) ==
    IF budgetText = <<>> THEN Num(0)
    ELSE LET matches == NumberMatches(RemoveCommas(budgetText), 1)
         IN  IF matches = <<>> THEN Num(0)
             ELSE MaxNum([i \in 1..Len(matches) |-> parseFloat(matches[i])])

\* settings.keywordsX.toLowerCase().split(',').map(k => k.trim())
KeywordList(text) ==
    LET raw == split(toLowerCase(text), ",")
    IN  [i \in 1..Len(raw) |-> trim(raw[i])]

\* (job.title + ' ' + (job.description || '')).toLowerCase()
JobContent(job) == toLowerCase(job.title \o <<" ">> \o job.description)

BudgetRejects(job, settings) ==
    /\ settings.minBudget > 0
    /\ job.budget # <<>>
    /\ LET budgetValue == parseBudgetValue(job.budget)
       IN  NumGt(budgetValue, Num(0)) /\ NumLt(budgetValue, Num(settings.minBudget))

\* a rate of zero let through, as the budget rule lets a budget of zero through
HiringRateRejectsNonzero(job, settings) ==
    /\ settings.minHiringRate > 0
    /\ job.hiringRate # <<>>
    /\ LET hiringRateValue == parseHiringRate(job.hiringRate)
       IN  /\ NumGt(hiringRateValue, Num(0))
           /\ NumLt(hiringRateValue, Num(settings.minHiringRate))

HiringRateRejects(job, settings) ==
    /\ settings.minHiringRate > 0
    /\ job.hiringRate # <<>>
    /\ NumLt(parseHiringRate(job.hiringRate), Num(settings.minHiringRate))

IncludeRejects(job, settings) ==
    /\ settings.keywordsInclude # <<>>
    /\ trim(settings.keywordsInclude) # <<>>
    /\ LET includesList == KeywordList(settings.keywordsInclude)
       IN  ~ \E i \in 1..Len(includesList) : includes(JobContent(job), includesList[i])

ExcludeRejects(job, settings) ==
    /\ settings.keywordsExclude # <<>>
    /\ trim(settings.keywordsExclude) # <<>>
    /\ LET excludes == KeywordList(settings.keywordsExclude)
       IN  \E i \in 1..Len(excludes) : includes(JobContent(job), excludes[i])

\* a duration equal to the maximum rejected too
DurationRejectsAtMaximum(job, settings) ==
    /\ settings.maxDuration > 0
    /\ job.duration # <<>>
    /\ LET days == parseDurationDays(job.duration)
       IN  days > 0 /\ days >= settings.maxDuration

DurationRejects(job, settings) ==
    /\ settings.maxDuration > 0
    /\ job.duration # <<>>
    /\ LET days == parseDurationDays(job.duration)
       IN  days > 0 /\ days > settings.maxDuration

ClientAgeRejects(job, settings, now) ==
    /\ settings.minClientAge > 0
    /\ job.registrationDate # <<>>
    /\ LET ageDays == calculateClientAgeDays(job.registrationDate, now)
       IN  ageDays >= 0 /\ ageDays < settings.minClientAge

\* a whitelist written as a shortcut: a listing that matches an include
\* keyword is accepted at once, the later rules are skipped
applyFiltersIncludeShortcut(job, settings, now) ==
    IF BudgetRejects(job, settings) THEN FALSE
    ELSE IF HiringRateRejects(job, settings) THEN FALSE
    ELSE IF IncludeRejects(job, settings) THEN FALSE
    ELSE IF settings.keywordsInclude # <<>> THEN TRUE
    ELSE IF ExcludeRejects(job, settings) THEN FALSE
    ELSE IF DurationRejects(job, settings) THEN FALSE
    ELSE IF ClientAgeRejects(job, settings, now) THEN FALSE
    ELSE TRUE

applyFilters(job, settings, now) ==
    IF BudgetRejects(job, settings) THEN FALSE
    ELSE IF HiringRateRejects(job, settings) THEN FALSE
    ELSE IF IncludeRejects(job, settings) THEN FALSE
    ELSE IF ExcludeRejects(job, settings) THEN FALSE
    ELSE IF DurationRejects(job, settings) THEN FALSE
    ELSE IF ClientAgeRejects(job, settings, now) THEN FALSE
    ELSE TRUE

(***************************************************************************)
(* Quiet hours.  clock is what new Date() gives: [h |-> getHours(),        *)
(* m |-> getMinutes()].                                                    *)
(***************************************************************************)
\* "HH:MM".split(':').map(Number) as hours * 60 + minutes
MinutesOf(timeText) ==
    LET hm == split(timeText, ":")
    IN  Number(hm[1]).v * 60 + Number(hm[2]).v

\* the wrap-around branch written with "and"
isQuietHourWrapAnd(settings, clock) ==
    IF settings.quietHoursStart = <<>> \/ settings.quietHoursEnd = <<>> THEN FALSE
    ELSE LET currentMinutes == clock.h * 60 + clock.m
             startMinutes == MinutesOf(settings.quietHoursStart)
             endMinutes == MinutesOf(settings.quietHoursEnd)
         IN  IF startMinutes < endMinutes
             THEN currentMinutes >= startMinutes /\ currentMinutes <= endMinutes
             ELSE currentMinutes >= startMinutes /\ currentMinutes <= endMinutes

\* background worker
isQuietHour(settings, clock) ==
    IF settings.quietHoursStart = <<>> \/ settings.quietHoursEnd = <<>> THEN FALSE
    ELSE LET currentMinutes == clock.h * 60 + clock.m
             startMinutes == MinutesOf(settings.quietHoursStart)
             endMinutes == MinutesOf(settings.quietHoursEnd)
         IN  IF startMinutes < endMinutes
             THEN currentMinutes >= startMinutes /\ currentMinutes <= endMinutes
             ELSE currentMinutes >= startMinutes \/ currentMinutes <= endMinutes

\* signalr-client.js, its own copy
isQuietHourSignalR(settings, clock) ==
    IF settings.quietHoursStart = <<>> \/ settings.quietHoursEnd = <<>> THEN FALSE
    ELSE LET currentMinutes == clock.h * 60 + clock.m
             startMinutes == MinutesOf(settings.quietHoursStart)
             endMinutes == MinutesOf(settings.quietHoursEnd)
         IN  IF startMinutes < endMinutes
             THEN currentMinutes >= startMinutes /\ currentMinutes <= endMinutes
             ELSE currentMinutes >= startMinutes \/ currentMinutes <= endMinutes

(***************************************************************************)
(* The site: listings 1..NumIds; the list page and the detail page of a    *)
(* listing show the same texts at every fetch.                             *)
(***************************************************************************)
NumIds == 3

\* the code's 500 (seenJobs.slice(-500), _seenJobIds.Count > 500), scaled down
SeenCap == 2

Ids == 1..NumIds

Kind(id) == ((id - 1) % 3) + 1

T_WebApi == <<"W", "e", "b", " ", "A", "P", "I">>

T_PhpApi == <<"P", "H", "P", " ", "a", "p", "i">>

T_PhpNet == <<"p", "h", "p", " ", "n", "e", "t">>

T_100 == <<"$", "1", "0", "0">>

T_900 == <<"$", "9", "0", "0">>

T_500to1000 ==
    <<"$", "5", "0", "0", ".", "0", "0", " ", "-", " ",
      "$", "1", ",", "0", "0", "0", ".", "0", "0">>

T_85pct == <<"8", "5", "%">>

T_46pct == <<"4", "6", ".", "6", "7", "%">>

T_5days == <<"5", " ">> \o W_days

\* "14 February 2026" as the site writes it
T_14Feb2026 == <<"1", "4", " ">> \o arabicMonths[2] \o <<" ", "2", "0", "2", "6">>

\* what the extension's list-page parser gives for a listing: kind 1 is a
\* well-paid listing, kind 2 a cheap one, kind 3 shows no budget in the list
ListJob(id) ==
    [id |-> id,
     title |-> IF Kind(id) = 2 THEN T_PhpApi ELSE T_WebApi,
     budget |-> CASE Kind(id) = 1 -> T_900 [] Kind(id) = 2 -> T_100 [] OTHER -> <<>>,
     url |-> id,
     description |-> <<>>, hiringRate |-> <<>>, status |-> <<>>,
     communications |-> <<>>, duration |-> <<>>, registrationDate |-> <<>>]

\* what a detail page gives: the client of a kind-3 listing hires rarely
Details(id) ==
    [description |-> T_PhpNet,
     hiringRate |-> IF Kind(id) = 3 THEN T_46pct ELSE T_85pct,
     status |-> <<"o", "p", "e", "n">>,
     communications |-> <<"2">>,
     duration |-> T_5days,
     budget |-> IF Kind(id) = 3 THEN T_500to1000 ELSE ListJob(id).budget,
     registrationDate |-> T_14Feb2026]

\* the ids of a page, newest (largest) first, as sort=latest lists them
RECURSIVE NewestFirst(_)
NewestFirst(S) ==
    IF S = {} THEN <<>>
    ELSE LET top == CHOOSE x \in S : \A y \in S : y <= x
         IN  <<top>> \o NewestFirst(S \ {top})

\* the list pages the site can show
\* the listings a page shows at most
PageSize == 1

Pages == {NewestFirst(S) : S \in {T \in SUBSET Ids : Cardinality(T) <= PageSize}}

Elements(seq) == {seq[i] : i \in 1..Len(seq)}

\* a list of ids that leaves every job out
IdsOfNone(jobs) == <<>>

IdsOf(jobs) == [i \in 1..Len(jobs) |-> jobs[i].id]

(***************************************************************************)
(* Server: JobScraperService.  _seenJobIds is a .NET HashSet: its entries  *)
(* array, and the stack of freed slots that Add fills before it appends.   *)
(* Enumeration (Take) walks the entries array and skips freed slots.       *)
(***************************************************************************)
Free == 0

EmptyHashSet == [entries |-> <<>>, free |-> <<>>]

HashSetContains(hs, id) == \E i \in 1..Len(hs.entries) : hs.entries[i] = id

HashSetCount(hs) == Len(hs.entries) - Len(hs.free)

HashSetAdd(hs, id) ==
    IF HashSetContains(hs, id) THEN hs
    ELSE IF hs.free # <<>>
         THEN [entries |-> [hs.entries EXCEPT ![Head(hs.free)] = id],
               free |-> Tail(hs.free)]
         ELSE [entries |-> Append(hs.entries, id), free |-> hs.free]

HashSetRemove(hs, id) ==
    IF ~HashSetContains(hs, id) THEN hs
    ELSE LET i == CHOOSE j \in 1..Len(hs.entries) : hs.entries[j] = id
         IN  [entries |-> [hs.entries EXCEPT ![i] = Free], free |-> <<i>> \o hs.free]

\* the order in which foreach / Take see the set
HashSetEnumerate(hs) == SelectSeq(hs.entries, LAMBDA e : e # Free)

RECURSIVE HashSetAddAll(_, _)
HashSetAddAll(hs, ids) ==
    IF ids = <<>> THEN hs ELSE HashSetAddAll(HashSetAdd(hs, Head(ids)), Tail(ids))

RECURSIVE HashSetRemoveAll(_, _)
HashSetRemoveAll(hs, ids) ==
    IF ids = <<>> THEN hs
    ELSE HashSetRemoveAll(HashSetRemove(hs, Head(ids)), Tail(ids))

\* a cleanup that never runs
SrvCleanupNever(hs) == hs

\* if (_seenJobIds.Count > 500) remove _seenJobIds.Take(Count - 500)
SrvCleanup(hs) ==
    IF HashSetCount(hs) > SeenCap
    THEN HashSetRemoveAll(hs, SubSeq(HashSetEnumerate(hs), 1, HashSetCount(hs) - SeenCap))
    ELSE hs

\* what the server's list-page parser gives: a missing budget cell reads
\* "not specified"
SrvListJob(id) ==
    [ListJob(id) EXCEPT !.budget = IF @ = <<>> THEN W_unspecified ELSE @]

\* lines 90-100: the detail fields overwrite, the budget only if unknown
SrvEnrich(job, details) ==
    [job EXCEPT !.description = details.description,
                !.hiringRate = details.hiringRate,
                !.status = details.status,
                !.communications = details.communications,
                !.duration = details.duration,
                !.registrationDate = details.registrationDate,
                !.budget = IF @ = <<>> \/ @ = W_unspecified THEN details.budget ELSE @]

\* the ids added to the set, the latest addition last
RECURSIVE Touch(_, _)
Touch(history, ids) ==
    IF ids = <<>> THEN history
    ELSE Touch(Append(SelectSeq(history, LAMBDA x : x # Head(ids)), Head(ids)), Tail(ids))

NoPage == [known |-> FALSE, page |-> <<>>]

\* the connections that may be open together
NumConns == 3

Conns == 1..NumConns

\* a confirmation sent to every connection instead of the caller
CallerEveryone(c, all) == all

\* Clients.Caller: the connection whose call the hub method serves
Caller(c, all) == {c}

\* a message as the hub sent it: the connections it was meant for, those it
\* reached, those whose write failed, and whether SendAsync threw
Message(event, target, reached, failed, threw) ==
    [event |-> event, target |-> target, reached |-> reached,
     failed |-> failed, threw |-> threw]

\* a broadcast given up at the first connection whose write fails
SendAllStopsAtFailure(all, failing) ==
    [reached |-> {c \in all : \A f \in failing : c < f}, kept |-> all \ failing]

\* Clients.All.SendAsync (SignalR's DefaultHubLifetimeManager.SendAllAsync):
\* the message is written to every connection; a write that fails is logged
\* inside HubConnectionContext.WriteAsync, which aborts that connection, and
\* the aborted connection leaves the manager's store
SendAll(all, failing) ==
    [reached |-> all \ failing, kept |-> all \ failing]

\* where ExecuteAsync stands once an exception of the cycle has been caught:
\* a loop whose catch is missing has ended
AfterCatchStopped == "stopped"

\* lines 41-49: the catch logs, the loop waits for the next interval
AfterCatch == "delay"

ServerInit ==
    /\ srvSeen = EmptyHashSet
    /\ srvPc = "delay"
    /\ srvPage = <<>>
    /\ srvJobs = <<>>
    /\ srvIdx = 0
    /\ srvEnriched = <<>>
    /\ srvBatch = <<>>
    /\ srvHistory = <<>>
    /\ srvPrev = NoPage
    /\ srvStopping = FALSE
    /\ srvFailed = FALSE
    /\ conns = {}
    /\ sent = <<>>

\* a loop that goes on whatever the token says
LoopContinuesAlways(cancelled) == TRUE

\* ExecuteAsync, lines 36-52: the loop goes on while stoppingToken is not
\* cancelled (a cancelled token ends Task.Delay and the loop with it)
LoopContinues(cancelled) == ~cancelled

\* the keywords of IsAspNetWebApiJob, lines 313-324
AspNetKeywords ==
    {<<"a", "s", "p", ".", "n", "e", "t">>, <<"a", "s", "p", " ", ".", "n", "e", "t">>,
     <<"a", "s", "p", "n", "e", "t">>, <<"w", "e", "b", " ", "a", "p", "i">>,
     <<"w", "e", "b", "a", "p", "i">>, <<".", "n", "e", "t", " ", "c", "o", "r", "e">>,
     <<"d", "o", "t", "n", "e", "t">>, <<"c", "#">>, <<"c", "s", "h", "a", "r", "p">>}

\* IsAspNetWebApiJob(job), lines 310-329; no line of the service calls it
IsAspNetWebApiJob(job) ==
    LET searchText == toLowerCase(job.title \o <<" ">> \o job.description)
    IN  \E keyword \in AspNetKeywords : includes(searchText, keyword)

\* ExecuteAsync: the delay is over, CheckForNewJobsAsync starts its fetch
SrvStart ==
    /\ mode = "server"
    /\ srvPc = "delay"
    /\ LoopContinues(srvStopping)
    /\ srvPc' = "fetch"
    /\ srvPage' = <<>> /\ srvJobs' = <<>> /\ srvIdx' = 0
    /\ srvEnriched' = <<>> /\ srvBatch' = <<>>
    /\ sent' = <<>>
    /\ UNCHANGED <<srvSeen, srvHistory, srvPrev, srvStopping, srvFailed, conns>>
    /\ UNCHANGED <<mode, pureVars, extVars, cliVars, bgVars, enr, retryContext>>

\* the host cancels stoppingToken (shutdown)
SrvCancel ==
    /\ mode = "server"
    /\ ~srvStopping
    /\ srvStopping' = TRUE
    /\ sent' = <<>>
    /\ UNCHANGED <<srvSeen, srvPc, srvPage, srvJobs, srvIdx, srvEnriched, srvBatch,
                   srvHistory, srvPrev, srvFailed, conns>>
    /\ UNCHANGED <<mode, pureVars, extVars, cliVars, bgVars, enr, retryContext>>

\* Task.Delay(_checkInterval, stoppingToken) ends with the cancellation:
\* ExecuteAsync is over
SrvStop ==
    /\ mode = "server"
    /\ srvPc = "delay"
    /\ srvStopping
    /\ srvPc' = "stopped"
    /\ sent' = <<>>
    /\ UNCHANGED <<srvSeen, srvPage, srvJobs, srvIdx, srvEnriched, srvBatch,
                   srvHistory, srvPrev, srvStopping, srvFailed, conns>>
    /\ UNCHANGED <<mode, pureVars, extVars, cliVars, bgVars, enr, retryContext>>

\* FetchJobsAsync throws (the request fails or times out, the parser throws):
\* the catch of CheckForNewJobsAsync ends the cycle
SrvFetchThrows ==
    /\ mode = "server"
    /\ srvPc = "fetch"
    /\ srvPc' = AfterCatch
    /\ srvPrev' = NoPage
    /\ srvFailed' = TRUE
    /\ sent' = <<>>
    /\ UNCHANGED <<srvSeen, srvPage, srvJobs, srvIdx, srvEnriched, srvBatch,
                   srvHistory, srvStopping, conns>>
    /\ UNCHANGED <<mode, pureVars, extVars, cliVars, bgVars, enr, retryContext>>

\* FetchJobsAsync returns a page (empty on an HTTP error status); lines 66-76
\* pick the new jobs and mark them seen; with none, the cleanup runs at once
SrvFetched ==
    /\ mode = "server"
    /\ srvPc = "fetch"
    /\ \E page \in Pages :
        LET newIds == SelectSeq(page, LAMBDA id : ~HashSetContains(srvSeen, id))
        IN  /\ srvPage' = page
            /\ srvJobs' = [i \in 1..Len(newIds) |-> SrvListJob(newIds[i])]
            /\ srvHistory' = Touch(srvHistory, newIds)
            /\ IF newIds # <<>>
               THEN /\ srvSeen' = HashSetAddAll(srvSeen, newIds)
                    /\ srvPc' = "enrich"
                    /\ srvIdx' = 1
                    /\ UNCHANGED srvPrev
               ELSE /\ srvSeen' = SrvCleanup(srvSeen)
                    /\ srvPc' = "delay"
                    /\ srvIdx' = 0
                    /\ srvPrev' = [known |-> TRUE, page |-> page]
    /\ srvFailed' = FALSE
    /\ sent' = <<>>
    /\ UNCHANGED <<srvEnriched, srvBatch, srvStopping, conns>>
    /\ UNCHANGED <<mode, pureVars, extVars, cliVars, bgVars, enr, retryContext>>

\* FetchProjectDetailsAsync returns for newJobs[srvIdx]: the details, or null
SrvEnrichOne ==
    /\ mode = "server"
    /\ srvPc = "enrich"
    /\ \E gotDetails \in BOOLEAN :
        LET job == srvJobs[srvIdx]
        IN  srvEnriched' = Append(srvEnriched,
                IF gotDetails THEN SrvEnrich(job, Details(job.id)) ELSE job)
    /\ IF srvIdx < Len(srvJobs)
       THEN srvIdx' = srvIdx + 1 /\ srvPc' = "enrich"
       ELSE srvIdx' = 0 /\ srvPc' = "notify"
    /\ sent' = <<>>
    /\ UNCHANGED <<srvSeen, srvPage, srvJobs, srvBatch, srvHistory, srvPrev,
                   srvStopping, srvFailed, conns>>
    /\ UNCHANGED <<mode, pureVars, extVars, cliVars, bgVars, enr, retryContext>>

\* NotifyClientsAsync: Clients.All.SendAsync("NewJobsDetected", ...).  The
\* writes to the connections in failing fail; or SendAsync itself throws
\* before any write, and the catch of NotifyClientsAsync logs it
SrvNotify ==
    /\ mode = "server"
    /\ srvPc = "notify"
    /\ srvBatch' = IdsOf(srvEnriched)
    /\ srvPc' = "cleanup"
    /\ \E threw \in BOOLEAN, failing \in SUBSET conns :
        /\ threw => failing = {}
        /\ LET r == SendAll(conns, failing)
           IN  /\ sent' = <<Message("NewJobsDetected", conns,
                                    IF threw THEN {} ELSE r.reached, failing, threw)>>
               /\ conns' = IF threw THEN conns ELSE r.kept
        /\ srvFailed' = threw
    /\ UNCHANGED <<srvSeen, srvPage, srvJobs, srvIdx, srvEnriched, srvHistory, srvPrev,
                   srvStopping>>
    /\ UNCHANGED <<mode, pureVars, extVars, cliVars, bgVars, enr, retryContext>>

\* lines 121-129, then ExecuteAsync waits for the next interval
SrvCleanupStep ==
    /\ mode = "server"
    /\ srvPc = "cleanup"
    /\ srvSeen' = SrvCleanup(srvSeen)
    /\ srvPc' = "delay"
    /\ srvPrev' = [known |-> TRUE, page |-> srvPage]
    /\ sent' = <<>>
    /\ UNCHANGED <<srvPage, srvJobs, srvIdx, srvEnriched, srvBatch, srvHistory,
                   srvStopping, srvFailed, conns>>
    /\ UNCHANGED <<mode, pureVars, extVars, cliVars, bgVars, enr, retryContext>>

\* JobNotificationHub.OnConnectedAsync for a new connection c: the connection
\* is in the manager's store, the hub sends "Connected" to Clients.Caller
OnConnectedAsync(c) ==
    /\ mode = "server"
    /\ c \in Conns \ conns
    /\ conns' = conns \cup {c}
    /\ sent' = <<Message("Connected", Caller(c, conns'), Caller(c, conns'), {}, FALSE)>>
    /\ UNCHANGED <<srvSeen, srvPc, srvPage, srvJobs, srvIdx, srvEnriched, srvBatch,
                   srvHistory, srvPrev, srvStopping, srvFailed>>
    /\ UNCHANGED <<mode, pureVars, extVars, cliVars, bgVars, enr, retryContext>>

\* JobNotificationHub.OnDisconnectedAsync: the connection has left the store
OnDisconnectedAsync(c) ==
    /\ mode = "server"
    /\ c \in conns
    /\ conns' = conns \ {c}
    /\ sent' = <<>>
    /\ UNCHANGED <<srvSeen, srvPc, srvPage, srvJobs, srvIdx, srvEnriched, srvBatch,
                   srvHistory, srvPrev, srvStopping, srvFailed>>
    /\ UNCHANGED <<mode, pureVars, extVars, cliVars, bgVars, enr, retryContext>>

ServerNext ==
    \/ SrvStart
    \/ SrvCancel
    \/ SrvStop
    \/ SrvFetchThrows
    \/ SrvFetched
    \/ SrvEnrichOne
    \/ SrvNotify
    \/ SrvCleanupStep
    \/ \E c \in Conns : OnConnectedAsync(c) \/ OnDisconnectedAsync(c)

(***************************************************************************)
(* Inputs of the two pure functions                                        *)
(***************************************************************************)
\* a quiet-hours bound the user has not configured
unset == 0 - 1

\* what the specification says of a window start..end at minute now
QuietExpected(start, end, now) ==
    IF start = unset \/ end = unset THEN FALSE
    ELSE IF start < end THEN start <= now /\ now <= end
    ELSE now >= start \/ now <= end

\* minutes of the day: 00:00, 06:30, 07:00, 12:00, 23:00, 23:30, 23:59
SampleMinutes == {0, 390, 420, 720, 1380, 1410, 1439}

TwoDigits(v) == <<Digits[(v \div 10) + 1], Digits[(v % 10) + 1]>>

\* the "HH:MM" text a time input stores for a minute of the day
TimeText(minutes) ==
    IF minutes = unset THEN <<>>
    ELSE TwoDigits(minutes \div 60) \o <<":">> \o TwoDigits(minutes % 60)

QuietSettings(start, end) ==
    [quietHoursStart |-> TimeText(start), quietHoursEnd |-> TimeText(end)]

ClockAt(minutes) == [h |-> minutes \div 60, m |-> minutes % 60]

K_ApiNet == <<"A", "P", "I", ",", " ", "N", "e", "t">>

K_Php == <<"p", "h", "p">>

SampleTitles == {T_WebApi, T_PhpApi}

SampleDescriptions == {<<>>, T_PhpNet}

SampleBudgets == {<<>>, T_100, T_500to1000}

SampleHiringRates == {<<>>, T_46pct, W_notCalculatedYet}

SampleDurations == {<<>>, T_5days}

SampleDates == {<<>>, T_14Feb2026}

\* 20 February 2026 during the day, 1 June 2026 at midnight
SampleNows == {Clock(2026, 1, 20, TRUE), Clock(2026, 5, 1, FALSE)}

SampleJobs ==
    [title : SampleTitles, description : SampleDescriptions, budget : SampleBudgets,
     hiringRate : SampleHiringRates, duration : SampleDurations,
     registrationDate : SampleDates]

NoCriteria ==
    [minBudget |-> 0, minHiringRate |-> 0, keywordsInclude |-> <<>>,
     keywordsExclude |-> <<>>, maxDuration |-> 0, minClientAge |-> 0]

Criteria ==
    {"minBudget", "minHiringRate", "keywordsInclude", "keywordsExclude",
     "maxDuration", "minClientAge"}

\* a criterion is disabled when it is zero or empty
CriterionDisabled(settings, c) ==
    IF c \in {"keywordsInclude", "keywordsExclude"}
    THEN settings[c] = <<>>
    ELSE settings[c] = 0

\* the values a user enables a criterion with
EnabledValues(c) ==
    CASE c = "minBudget" -> {500, 2000}
      [] c = "minHiringRate" -> {50}
      [] c = "keywordsInclude" -> {K_ApiNet}
      [] c = "keywordsExclude" -> {K_Php}
      [] c = "maxDuration" -> {3}
      [] c = "minClientAge" -> {30}

(***************************************************************************)
(* Extension: the background worker's checkForNewJobs and the SignalR      *)
(* client's handleNewJobs.  Both are async functions of one service        *)
(* worker: each runs without interruption from one await to the next, and  *)
(* any number of invocations may be waiting at their awaits.               *)
(***************************************************************************)
\* the invocations of checkForNewJobs that may be in progress together, with
\* the hub connection off and with it on
NumCycles == 2

HubCycles == 1

Cycles == 1..NumCycles

\* the settings the worker runs with: the hub connection off, the hub
\* connection on, and the hub connection off on a network that drops requests
ExtModes == {"polling", "signalr", "faults"}

CyclesOf(m) == IF m = "polling" THEN 1..NumCycles ELSE 1..HubCycles

\* Object.entries(MOSTAQL_URLS)
Categories == <<"development", "ai", "all">>

\* settings in chrome.storage.local: what the user has configured.  With the
\* hub connection off two categories are polled and quiet hours are off; with
\* it on, one category is polled and quiet hours are on
Settings ==
    [development |-> TRUE, ai |-> FALSE, all |-> (mode # "signalr"), sound |-> TRUE,
     minBudget |-> 500, minHiringRate |-> 50, keywordsInclude |-> <<>>,
     keywordsExclude |-> <<>>, maxDuration |-> 0, minClientAge |-> 0,
     quietHoursEnabled |-> (mode = "signalr"),
     quietHoursStart |-> TimeText(1380), quietHoursEnd |-> TimeText(420)]

\* new Date() of the client-age rule
SysNow == Clock(2026, 1, 20, TRUE)

\* the minutes of the day at which a run may read the clock: 06:30, 12:00, 23:30
ClockReadings == {390, 720, 1410}

\* the next category from index i on that settings[category] enables, 0 if none
RECURSIVE NextEnabled(_, _)
NextEnabled(settings, i) ==
    IF i > Len(Categories) THEN 0
    ELSE IF settings[Categories[i]] THEN i
    ELSE NextEnabled(settings, i + 1)

\* seenJobs.includes(id)
SeenIncludes(seenJobs, id) == \E i \in 1..Len(seenJobs) : seenJobs[i] = id

\* lines 675-681 with the filter call left out
NewJobsUnfiltered(jobs, seenJobs, settings) ==
    SelectSeq(jobs, LAMBDA job : ~SeenIncludes(seenJobs, job.id))

\* lines 675-681: jobs.filter(not seen and applyFilters)
NewJobs(jobs, seenJobs, settings) ==
    SelectSeq(jobs, LAMBDA job :
        ~SeenIncludes(seenJobs, job.id) /\ applyFilters(job, settings, SysNow))

\* the forEach left out: nothing is pushed
PushNewNothing(seenJobs, newJobs) == seenJobs

\* lines 687-691: push the id of every new job that is not in the list yet
RECURSIVE PushNew(_, _)
PushNew(seenJobs, newJobs) ==
    IF newJobs = <<>> THEN seenJobs
    ELSE PushNew(IF SeenIncludes(seenJobs, Head(newJobs).id)
                 THEN seenJobs
                 ELSE Append(seenJobs, Head(newJobs).id),
                 Tail(newJobs))

\* if (seenJobs.length > 500) seenJobs = seenJobs.slice(-500)
Trim(seenJobs) ==
    IF Len(seenJobs) > SeenCap
    THEN SubSeq(seenJobs, Len(seenJobs) - SeenCap + 1, Len(seenJobs))
    ELSE seenJobs

\* how await fetchJobs(url) can end: with the parsed page, or with [] after
\* an HTTP error status, a thrown network error, a Cloudflare challenge page
\* or the 3 s timer of the parser.  On the dropping network each is told
\* apart; elsewhere a failed fetch is the empty page.
ListOutcomes ==
    IF mode = "faults"
    THEN {"ok", "httpError", "networkError", "challenge", "parseTimeout"}
    ELSE {"ok"}

\* a fetchJobs that does not look at the response: what the body holds is parsed
fetchJobsUnguarded(outcome, page) == [i \in 1..Len(page) |-> ListJob(page[i])]

\* fetchJobs(url): the jobs of the page, [] on every failure
fetchJobs(outcome, page) ==
    IF outcome = "ok" THEN [i \in 1..Len(page) |-> ListJob(page[i])] ELSE <<>>

\* a merge that takes the budget of the detail page whatever the listing has
EnrichJobDetailBudget(job, details) ==
    [job EXCEPT !.description = details.description,
                !.hiringRate = details.hiringRate,
                !.budget = details.budget]

\* lines 725-735: the detail fields overwrite, the budget only if it was missing
EnrichJob(job, details) ==
    [job EXCEPT !.description = details.description,
                !.hiringRate = details.hiringRate,
                !.status = details.status,
                !.communications = details.communications,
                !.duration = details.duration,
                !.registrationDate = details.registrationDate,
                !.budget = IF @ = <<>> /\ details.budget # <<>> THEN details.budget ELSE @]

\* the quiet-hours test of line 710 and of signalr-client.js line 197
QuietNow(settings, minutes) ==
    settings.quietHoursEnabled /\ isQuietHour(settings, ClockAt(minutes))

QuietNowSignalR(settings, minutes) ==
    settings.quietHoursEnabled /\ isQuietHourSignalR(settings, ClockAt(minutes))

\* the batches the hub can push: listings with the server's fields, each
\* enriched by the server or not
ServerJobs(id) == {SrvListJob(id), SrvEnrich(SrvListJob(id), Details(id))}

PushBatches ==
    UNION {{b \in [1..Len(page) -> UNION {ServerJobs(id) : id \in Ids}] :
                \A i \in 1..Len(page) : b[i] \in ServerJobs(page[i])}
           : page \in Pages \ {<<>>}}

\* a chrome.alarms.clear that removes nothing
AlarmsClearNothing(all, name) == all

\* chrome.alarms.clear(name)
AlarmsClear(all, name) == {a \in all : a.name # name}

\* chrome.alarms.create(name, {periodInMinutes}): an alarm of the same name
\* is replaced
AlarmsCreate(all, name, period) ==
    AlarmsClear(all, name) \cup {[name |-> name, periodInMinutes |-> period]}

\* the check intervals the popup offers, in minutes
Intervals == {1, 5}

\* the day's count of new listings at which, at the latest, the day is over
MaxToday == 2

\* stats.todayCount is followed where one invocation runs at a time on the
\* dropping network; elsewhere it stays as installed
StatsFollowed == mode = "faults"

\* the locals of an invocation of checkForNewJobs; with them, what it has met:
\* read, the ids of the list storage.get gave it; listed, the ids on the pages it
\* fetched; early, the ids that quiet hours suppressed while it was in progress
\* on the dropping network also: got, how the list fetch of each category
\* ended; undetailed, the ids whose detail fetch gave null (kept until the
\* next invocation starts); failed, the invocation returned from its catch
IdleCycle ==
    [pc |-> "idle", seenJobs |-> <<>>, allNewJobs |-> <<>>, cat |-> 0, idx |-> 0,
     qualityJobs |-> <<>>, checkedAt |-> unset, read |-> {}, listed |-> {},
     early |-> {}, got |-> <<>>, undetailed |-> {}, failed |-> FALSE,
     todayCount |-> 0]

\* the locals of an invocation of handleNewJobs, with read and early
IdlePush ==
    [pc |-> "idle", jobs |-> <<>>, seenJobs |-> <<>>, validJobs |-> <<>>,
     read |-> {}, early |-> {}]

\* JavaScript's null: no connection object; no delay from the retry policy
null == -1

\* the HubConnection objects that exist at a time
MaxConnections == 3

ConnectionIds == 1..MaxConnections

\* the calls of connect() in progress at a time
MaxCalls == 2

Calls == 1..MaxCalls

\* a HubConnection that is not built, or is stopped and referenced no more
Unbuilt == [state |-> "Unbuilt", retries |-> 0]

\* a call slot without a call of connect()
NoCall == [pc |-> "idle", on |-> null]

\* the constructor of SignalRClient, signalr-client.js lines 6-14; with the
\* object, what has happened to it: hub, the HubConnection objects built by
\* connect(), with the library's state and the retries made since the loss;
\* calls, the calls of connect() that wait at an await, with the connection
\* they wait for; timers, the pending callbacks of scheduleReconnect; closed,
\* disconnect() has been called and connect() has not been called from outside
\* since
NewClient ==
    [connection |-> null, isConnected |-> FALSE, reconnectAttempts |-> 0,
     hub |-> [c \in ConnectionIds |-> Unbuilt],
     calls |-> [k \in Calls |-> NoCall],
     timers |-> 0, closed |-> FALSE]

ExtInit ==
    /\ storedSeen = <<>>
    /\ cyc = [p \in Cycles |-> IdleCycle]
    /\ push = IdlePush
    /\ shown = <<>>
    /\ notified = {}
    /\ suppressed = {}
    /\ loudInQuiet = FALSE
    /\ alarms = AlarmsCreate({}, "checkJobs", 1)
    /\ storedStats = 0
    /\ cl = NewClient

\* showNotification(jobs) is called with the listings ids
Notify(ids) ==
    /\ shown' = ids
    /\ notified' = notified \cup (Elements(ids) \cap Elements(storedSeen))

\* the step calls showNotification for no listing
NotifyNothing ==
    /\ shown' = <<>>
    /\ UNCHANGED notified

\* chrome.storage.local.set({seenJobs: list})
Store(list) ==
    /\ storedSeen' = list
    /\ shown' = <<>>
    /\ notified' = notified \cap Elements(list)

\* a run in progress notes the ids that a quiet-hours check suppresses meanwhile
NoteEarly(run, ids) ==
    IF run.pc = "idle" THEN run ELSE [run EXCEPT !.early = @ \cup ids]

\* chrome.alarms.onAlarm ('checkJobs'): checkForNewJobs() is called and waits
\* at chrome.storage.local.get
AlarmFires(p) ==
    /\ mode \in ExtModes
    /\ p \in CyclesOf(mode)
    /\ cyc[p].pc = "idle"
    /\ \E a \in alarms : a.name = "checkJobs"
    /\ cyc' = [cyc EXCEPT ![p] = [IdleCycle EXCEPT !.pc = "get"]]
    /\ NotifyNothing
    /\ UNCHANGED <<storedSeen, push, suppressed, loudInQuiet>>
    /\ UNCHANGED <<mode, pureVars, srvVars, cliVars, bgVars, enr, retryContext>>

\* chrome.runtime.onMessage 'checkNow': the same call
CheckNow(p) ==
    /\ mode \in ExtModes
    /\ p \in CyclesOf(mode)
    /\ cyc[p].pc = "idle"
    /\ cyc' = [cyc EXCEPT ![p] = [IdleCycle EXCEPT !.pc = "get"]]
    /\ NotifyNothing
    /\ UNCHANGED <<storedSeen, push, suppressed, loudInQuiet>>
    /\ UNCHANGED <<mode, pureVars, srvVars, cliVars, bgVars, enr, retryContext>>

\* lines 695-705 once the category loop is over: trim, then storage.set
CycleSave(p, c) ==
    LET kept == Trim(c.seenJobs)
    IN  /\ cyc' = [cyc EXCEPT ![p] = [c EXCEPT !.pc = "saved", !.seenJobs = kept,
                                               !.cat = 0]]
        /\ Store(kept)
        /\ storedStats' = IF StatsFollowed THEN c.todayCount + Len(c.allNewJobs)
                          ELSE storedStats

\* storage.get resolves: lines 656-672 up to the first await fetchJobs(url).
\* todayDate differs from the day (lines 661-664) once MaxToday listings have
\* been counted, and not before
CycleGet(p) ==
    /\ mode \in ExtModes
    /\ cyc[p].pc = "get"
    /\ \E newDay \in BOOLEAN :
        /\ newDay = (storedStats >= MaxToday)
        /\ LET c == [cyc[p] EXCEPT !.seenJobs = storedSeen,
                                   !.cat = NextEnabled(Settings, 1),
                                   !.read = Elements(storedSeen),
                                   !.todayCount = IF StatsFollowed /\ ~newDay
                                                  THEN storedStats ELSE 0]
           IN  IF c.cat # 0
               THEN /\ cyc' = [cyc EXCEPT ![p] = [c EXCEPT !.pc = "fetch"]]
                    /\ NotifyNothing
                    /\ UNCHANGED <<storedSeen, storedStats>>
               ELSE CycleSave(p, c)
    /\ UNCHANGED <<push, suppressed, loudInQuiet>>
    /\ UNCHANGED <<mode, pureVars, srvVars, cliVars, alarms, enr, retryContext>>

\* fetchJobs(url) resolves with the page of category cyc[p].cat (an empty page
\* also stands for a failed fetch, which returns []): lines 673-691, then the
\* next enabled category or lines 695-705
CycleFetched(p) ==
    /\ mode \in ExtModes
    /\ cyc[p].pc = "fetch"
    /\ \E page \in Pages, outcome \in ListOutcomes :
        LET jobs == fetchJobs(outcome, page)
            newJobs == NewJobs(jobs, cyc[p].seenJobs, Settings)
            result == [cat |-> cyc[p].cat, outcome |-> outcome,
                       page |-> IF outcome = "ok" THEN page ELSE <<>>]
            c == [cyc[p] EXCEPT !.seenJobs = PushNew(@, newJobs),
                                !.allNewJobs = @ \o newJobs,
                                !.cat = NextEnabled(Settings, @ + 1),
                                !.listed = @ \cup Elements(IdsOf(jobs)),
                                !.got = IF mode = "faults" THEN Append(@, result)
                                        ELSE @]
        IN  IF c.cat # 0
            THEN /\ cyc' = [cyc EXCEPT ![p] = c]
                 /\ NotifyNothing
                 /\ UNCHANGED <<storedSeen, storedStats>>
            ELSE CycleSave(p, c)
    /\ UNCHANGED <<push, suppressed, loudInQuiet>>
    /\ UNCHANGED <<mode, pureVars, srvVars, cliVars, alarms, enr, retryContext>>

\* storage.set resolves with no new job: line 763
CycleNothingNew(p) ==
    /\ mode \in ExtModes
    /\ cyc[p].pc = "saved"
    /\ cyc[p].allNewJobs = <<>>
    /\ cyc' = [cyc EXCEPT ![p] = IdleCycle]
    /\ NotifyNothing
    /\ UNCHANGED <<storedSeen, push, suppressed, loudInQuiet>>
    /\ UNCHANGED <<mode, pureVars, srvVars, cliVars, bgVars, enr, retryContext>>

\* storage.set resolves with new jobs: the quiet-hours check of lines 708-715,
\* then either the return or the first await fetchProjectDetails(job.url)
CycleQuietCheck(p) ==
    /\ mode \in ExtModes
    /\ cyc[p].pc = "saved"
    /\ cyc[p].allNewJobs # <<>>
    /\ \E minutes \in ClockReadings :
        LET ids == Elements(IdsOf(cyc[p].allNewJobs))
        IN  IF QuietNow(Settings, minutes)
            THEN /\ cyc' = [q \in Cycles |->
                                IF q = p THEN IdleCycle ELSE NoteEarly(cyc[q], ids)]
                 /\ push' = NoteEarly(push, ids)
                 /\ suppressed' = suppressed \cup ids
            ELSE /\ cyc' = [cyc EXCEPT ![p].pc = "deep", ![p].idx = 1,
                                       ![p].checkedAt = minutes]
                 /\ UNCHANGED <<push, suppressed>>
    /\ NotifyNothing
    /\ UNCHANGED <<storedSeen, loudInQuiet>>
    /\ UNCHANGED <<mode, pureVars, srvVars, cliVars, bgVars, enr, retryContext>>

\* a listing without details dropped instead of kept
DeepPassesOnlyDetailed(gotDetails, enriched) ==
    gotDetails /\ applyFilters(enriched, Settings, SysNow)

\* lines 724-744: with projectDetails null the second filter pass is skipped
DeepPasses(gotDetails, enriched) ==
    ~gotDetails \/ applyFilters(enriched, Settings, SysNow)

\* fetchProjectDetails resolves for allNewJobs[idx] with the details or with
\* null: lines 723-745; after the last job, lines 747-763
CycleDeep(p) ==
    /\ mode \in ExtModes
    /\ cyc[p].pc = "deep"
    /\ \E gotDetails \in BOOLEAN :
        LET job == cyc[p].allNewJobs[cyc[p].idx]
            enriched == IF gotDetails THEN EnrichJob(job, Details(job.id)) ELSE job
            passes == DeepPasses(gotDetails, enriched)
            quality == IF passes THEN Append(cyc[p].qualityJobs, enriched)
                       ELSE cyc[p].qualityJobs
            plain == IF mode = "faults" /\ ~gotDetails
                     THEN cyc[p].undetailed \cup {job.id}
                     ELSE cyc[p].undetailed
        IN  IF cyc[p].idx < Len(cyc[p].allNewJobs)
            THEN /\ cyc' = [cyc EXCEPT ![p].qualityJobs = quality, ![p].idx = @ + 1,
                                       ![p].undetailed = plain]
                 /\ NotifyNothing
                 /\ UNCHANGED loudInQuiet
            ELSE /\ cyc' = [cyc EXCEPT ![p] = [IdleCycle EXCEPT !.undetailed = plain]]
                 /\ Notify(IdsOf(quality))
                 /\ loudInQuiet' =
                        (loudInQuiet \/
                         (/\ quality # <<>>
                          /\ Settings.quietHoursEnabled
                          /\ QuietExpected(1380, 420, cyc[p].checkedAt)))
    /\ UNCHANGED <<storedSeen, push, suppressed>>
    /\ UNCHANGED <<mode, pureVars, srvVars, cliVars, bgVars, enr, retryContext>>

\* chrome.storage.local.get rejects: the catch of lines 765-768 returns
\* {success: false}
CycleThrows(p) ==
    /\ mode = "faults"
    /\ cyc[p].pc = "get"
    /\ cyc' = [cyc EXCEPT ![p] = [IdleCycle EXCEPT !.failed = TRUE]]
    /\ NotifyNothing
    /\ UNCHANGED <<storedSeen, push, suppressed, loudInQuiet>>
    /\ UNCHANGED <<mode, pureVars, srvVars, cliVars, bgVars, enr, retryContext>>

\* a request of fetchJobs or of fetchProjectDetails gets no response: fetch()
\* is called without a signal and without a timer, its promise never settles
\* and the invocation stays at that await
CycleHangs(p) ==
    /\ mode = "faults"
    /\ cyc[p].pc \in {"fetch", "deep"}
    /\ cyc' = [cyc EXCEPT ![p].pc = "hung"]
    /\ NotifyNothing
    /\ UNCHANGED <<storedSeen, push, suppressed, loudInQuiet>>
    /\ UNCHANGED <<mode, pureVars, srvVars, cliVars, bgVars, enr, retryContext>>

\* the hub's NewJobsDetected event: handleNewJobs(jobs) is called and waits at
\* chrome.storage.local.get
PushArrives ==
    /\ mode = "signalr"
    /\ push.pc = "idle"
    /\ \E batch \in PushBatches :
        push' = [IdlePush EXCEPT !.pc = "get", !.jobs = batch]
    /\ NotifyNothing
    /\ UNCHANGED <<storedSeen, cyc, suppressed, loudInQuiet>>
    /\ UNCHANGED <<mode, pureVars, srvVars, cliVars, bgVars, enr, retryContext>>

\* signalr-client.js lines 147-172: [seenJobs, validJobs] after the loop
RECURSIVE HandleLoop(_, _, _)
HandleLoop(jobs, seenJobs, validJobs) ==
    IF jobs = <<>> THEN [seenJobs |-> seenJobs, validJobs |-> validJobs]
    ELSE LET job == Head(jobs)
         IN  IF SeenIncludes(seenJobs, job.id)
             THEN HandleLoop(Tail(jobs), seenJobs, validJobs)
             ELSE IF ~applyFilters(job, Settings, SysNow)
             THEN HandleLoop(Tail(jobs), Append(seenJobs, job.id), validJobs)
             ELSE HandleLoop(Tail(jobs), Append(seenJobs, job.id),
                             Append(validJobs, job))

\* storage.get resolves: signalr-client.js lines 134-192, up to storage.set
PushProcess ==
    /\ mode = "signalr"
    /\ push.pc = "get"
    /\ LET r == HandleLoop(push.jobs, storedSeen, <<>>)
           kept == Trim(r.seenJobs)
       IN  /\ push' = [push EXCEPT !.pc = "saved", !.seenJobs = kept,
                                   !.validJobs = r.validJobs,
                                   !.read = Elements(storedSeen)]
           /\ Store(kept)
    /\ UNCHANGED <<cyc, suppressed, loudInQuiet>>
    /\ UNCHANGED <<mode, pureVars, srvVars, cliVars, bgVars, enr, retryContext>>

\* storage.set resolves: signalr-client.js lines 194-212
PushNotify ==
    /\ mode = "signalr"
    /\ push.pc = "saved"
    /\ push' = IdlePush
    /\ \E minutes \in ClockReadings :
        LET ids == IdsOf(push.validJobs)
        IN  IF push.validJobs = <<>>
            THEN /\ NotifyNothing
                 /\ UNCHANGED <<cyc, suppressed, loudInQuiet>>
            ELSE IF QuietNowSignalR(Settings, minutes)
            THEN /\ suppressed' = suppressed \cup Elements(ids)
                 /\ cyc' = [q \in Cycles |-> NoteEarly(cyc[q], Elements(ids))]
                 /\ NotifyNothing
                 /\ UNCHANGED loudInQuiet
            ELSE /\ Notify(ids)
                 /\ loudInQuiet' =
                        (loudInQuiet \/
                         (Settings.quietHoursEnabled /\ QuietExpected(1380, 420, minutes)))
                 /\ UNCHANGED <<cyc, suppressed>>
    /\ UNCHANGED storedSeen
    /\ UNCHANGED <<mode, pureVars, srvVars, cliVars, bgVars, enr, retryContext>>

\* chrome.runtime.onMessage 'clearHistory': seenJobs becomes [], todayCount 0
ClearHistory ==
    /\ mode \in ExtModes
    /\ storedSeen # <<>> \/ storedStats # 0
    /\ Store(<<>>)
    /\ storedStats' = 0
    /\ UNCHANGED <<cyc, push, suppressed, loudInQuiet>>
    /\ UNCHANGED <<mode, pureVars, srvVars, cliVars, alarms, enr, retryContext>>

\* chrome.runtime.onMessage 'updateAlarm' (lines 1310-1315): the alarm is
\* cleared and created again with message.interval
updateAlarm(interval) ==
    /\ mode = "faults"
    /\ alarms' = AlarmsCreate(AlarmsClear(alarms, "checkJobs"), "checkJobs", interval)
    /\ NotifyNothing
    /\ UNCHANGED <<storedSeen, storedStats, cyc, push, suppressed, loudInQuiet>>
    /\ UNCHANGED <<mode, pureVars, srvVars, cliVars, enr, retryContext>>

ExtensionNext ==
    \/ \E p \in Cycles :
        \/ AlarmFires(p)
        \/ CheckNow(p)
        \/ CycleGet(p)
        \/ CycleFetched(p)
        \/ CycleNothingNew(p)
        \/ CycleQuietCheck(p)
        \/ CycleDeep(p)
        \/ CycleHangs(p)
        \/ CycleThrows(p)
    \/ PushArrives
    \/ PushProcess
    \/ PushNotify
    \/ ClearHistory
    \/ \E interval \in Intervals : updateAlarm(interval)

(***************************************************************************)
(* signalr-client.js: the SignalRClient object, its HubConnection and the  *)
(* timers of scheduleReconnect.  Calls of connect() may overlap.          *)
(***************************************************************************)
\* this.maxReconnectAttempts (10 in the constructor), scaled
maxReconnectAttempts == 3

\* the pending setTimeout callbacks that are followed
MaxTimers == 2

Min(a, b) == IF a < b THEN a ELSE b

\* retryContext.elapsedMilliseconds: under a minute, and a minute or more
ElapsedSamples == {0, 60000}

\* a policy without ceiling
nextRetryDelayUncapped(previousRetryCount, elapsedMilliseconds) ==
    1000 * 2 ^ previousRetryCount

\* lines 45-51, the policy of withAutomaticReconnect: a delay for every retry
nextRetryDelayInMilliseconds(previousRetryCount, elapsedMilliseconds) ==
    IF elapsedMilliseconds < 60000
    THEN Min(1000 * 2 ^ previousRetryCount, 60000)
    ELSE 60000

\* a scheduleReconnect that does not look at the attempts made
scheduleReconnectAlways(c) ==
    [c EXCEPT !.reconnectAttempts = @ + 1, !.timers = @ + 1]

\* scheduleReconnect(), lines 225-238
scheduleReconnect(c) ==
    IF c.reconnectAttempts >= maxReconnectAttempts THEN c
    ELSE [c EXCEPT !.reconnectAttempts = @ + 1, !.timers = @ + 1]

\* the state of this.connection, 'Disconnected' without a connection (as
\* getStatus, lines 273-279, reports it)
StateOf(c) ==
    IF c.connection = null THEN "Disconnected" ELSE c.hub[c.connection].state

\* a call of connect() waits for the start of connection h to settle
StartPending(c, h) == \E k \in Calls : c.calls[k].pc = "start" /\ c.calls[k].on = h

\* the identities a new HubConnection can take: of no object, or of a
\* stopped object that no start waits for and no call will ever reach again
FreeIds(c) ==
    {h \in ConnectionIds :
        /\ c.hub[h].state \in {"Unbuilt", "Disconnected"}
        /\ ~StartPending(c, h)}

\* the call slots without a call
IdleCalls(c) == {k \in Calls : c.calls[k].pc = "idle"}

Least(S) == CHOOSE x \in S : \A y \in S : x <= y

\* connection.stop() on h: a connection that was started is closed and the
\* library calls the onclose handler, lines 105-109
Stop(c, h) ==
    IF c.hub[h].state \in {"Connected", "Reconnecting"}
    THEN [c EXCEPT !.hub[h] = [state |-> "Disconnected", retries |-> 0],
                   !.isConnected = FALSE]
    ELSE [c EXCEPT !.hub[h] = [state |-> "Disconnected", retries |-> 0]]

\* lines 30-57 for call k: a HubConnection is built and assigned to
\* this.connection, the handlers are registered and start() is called
BuildAndStart(c, k) ==
    LET h == Least(FreeIds(c))
    IN  [c EXCEPT !.connection = h,
                  !.hub[h] = [state |-> "Connecting", retries |-> 0],
                  !.calls[k] = [pc |-> "start", on |-> h]]

\* connect(), lines 19-57, called from outside or by a timer of
\* scheduleReconnect: it returns at once when connected; otherwise it waits at
\* connection.stop() if it has a connection, else it builds one and waits at
\* connection.start()
connect(from) ==
    /\ mode = "client"
    /\ IdleCalls(cl) # {}
    /\ from = "timer" => cl.timers > 0
    /\ from = "outside" => cl.timers < MaxTimers
    /\ LET k == Least(IdleCalls(cl))
           c == [cl EXCEPT !.timers = IF from = "timer" THEN @ - 1 ELSE @,
                           !.closed = IF from = "outside" THEN FALSE ELSE @]
       IN  IF c.connection # null /\ c.isConnected
           THEN cl' = c
           ELSE IF c.connection # null
           THEN cl' = [Stop(c, c.connection) EXCEPT
                          !.calls[k] = [pc |-> "stop", on |-> c.connection]]
           ELSE /\ FreeIds(c) # {}
                /\ cl' = BuildAndStart(c, k)
    /\ UNCHANGED <<mode, pureVars, srvVars, extVars, bgVars, enr, retryContext>>

\* the calls of connect() that wait for the stop of connection h
Stopping(c, h) == {k \in Calls : c.calls[k].pc = "stop" /\ c.calls[k].on = h}

\* the calls ks go on behind line 27, one after the other
RECURSIVE Resume(_, _)
Resume(c, ks) ==
    IF ks = {} THEN c
    ELSE LET k == Least(ks) IN Resume(BuildAndStart(c, k), ks \ {k})

\* connection.stop() of line 27 resolves, after the start that was pending on
\* the stopped connection has been rejected.  The calls that wait for the
\* stop of the same connection go on in the same turn, one after the other:
\* lines 30-57, each builds a new connection, replaces this.connection by it
\* and starts it
stopResolves(h) ==
    /\ mode = "client"
    /\ Stopping(cl, h) # {}
    /\ ~StartPending(cl, h)
    /\ Cardinality(FreeIds(cl)) >= Cardinality(Stopping(cl, h))
    /\ cl' = Resume(cl, Stopping(cl, h))
    /\ UNCHANGED <<mode, pureVars, srvVars, extVars, bgVars, enr, retryContext>>

\* connection.start() of call k settles, lines 57-74: resolved, the flag is
\* set and the attempts are reset; rejected (as it is once the connection was
\* stopped), the catch clears the flag and calls scheduleReconnect
startSettles(k, resolved) ==
    /\ mode = "client"
    /\ cl.calls[k].pc = "start"
    /\ LET h == cl.calls[k].on
       IN  /\ resolved => cl.hub[h].state = "Connecting"
           /\ cl' = IF resolved
                    THEN [cl EXCEPT !.hub[h].state = "Connected",
                                    !.isConnected = TRUE,
                                    !.reconnectAttempts = 0,
                                    !.calls[k] = NoCall]
                    ELSE scheduleReconnect(
                             [cl EXCEPT !.hub[h] = [state |-> "Disconnected", retries |-> 0],
                                        !.isConnected = FALSE,
                                        !.calls[k] = NoCall])
    /\ UNCHANGED <<mode, pureVars, srvVars, extVars, bgVars, enr, retryContext>>

\* the transport of a connected connection fails: the library starts to
\* reconnect and calls the onreconnecting handler, lines 112-116, which
\* writes the flag of the client whatever this.connection is by now
connectionLost(h) ==
    /\ mode = "client"
    /\ cl.hub[h].state = "Connected"
    /\ cl' = [cl EXCEPT !.hub[h] = [state |-> "Reconnecting", retries |-> 0],
                        !.isConnected = FALSE]
    /\ UNCHANGED <<mode, pureVars, srvVars, extVars, bgVars, enr, retryContext>>

\* a retry of the library ends: reconnected, the onreconnected handler of
\* lines 119-123 runs; failed, the policy is asked for the next delay and the
\* library closes the connection (onclose, lines 105-109) if it gives none
retryEnds(h, reconnected) ==
    /\ mode = "client"
    /\ cl.hub[h].state = "Reconnecting"
    /\ reconnected \/ cl.hub[h].retries <= maxReconnectAttempts
    /\ \E elapsed \in ElapsedSamples :
        cl' = IF reconnected
              THEN [cl EXCEPT !.hub[h] = [state |-> "Connected", retries |-> 0],
                              !.isConnected = TRUE]
              ELSE IF nextRetryDelayInMilliseconds(cl.hub[h].retries + 1, elapsed) = null
              THEN [cl EXCEPT !.hub[h] = [state |-> "Disconnected", retries |-> 0],
                              !.isConnected = FALSE]
              ELSE [cl EXCEPT !.hub[h].retries = @ + 1]
    /\ UNCHANGED <<mode, pureVars, srvVars, extVars, bgVars, enr, retryContext>>

\* disconnect(), lines 243-254: this.connection is stopped (onclose runs) and
\* the flag is cleared; no timer is cleared
disconnect ==
    /\ mode = "client"
    /\ cl' = [(IF cl.connection = null THEN cl ELSE Stop(cl, cl.connection))
                EXCEPT !.isConnected = FALSE, !.closed = TRUE]
    /\ UNCHANGED <<mode, pureVars, srvVars, extVars, bgVars, enr, retryContext>>

ClientNext ==
    \/ \E from \in {"outside", "timer"} : connect(from)
    \/ \E h \in ConnectionIds : stopResolves(h)
    \/ \E k \in Calls, resolved \in BOOLEAN : startSettles(k, resolved)
    \/ \E h \in ConnectionIds : connectionLost(h)
    \/ \E h \in ConnectionIds, reconnected \in BOOLEAN : retryEnds(h, reconnected)
    \/ disconnect

(***************************************************************************)
(* signalr-client.js, lines 44-52: the retry loop of withAutomaticReconnect *)
(* with the policy of the client.  After a connection is lost the library  *)
(* asks the policy for a delay with previousRetryCount 0 and               *)
(* elapsedMilliseconds 0, waits, tries to start, and after a failed try    *)
(* asks again with the count raised and the time since the loss.           *)
(***************************************************************************)
\* the retries of one loss that are followed
MaxRetries == 8

\* how long a failing start takes, in ms: at once, and half a minute
AttemptDurations == {0, 30000}

\* the loop at the loss of the connection: no delay asked for yet
NoRetry ==
    [pc |-> "ask", previousRetryCount |-> 0, elapsedMilliseconds |-> 0,
     delay |-> null, previous |-> null]

\* the library calls nextRetryDelayInMilliseconds(retryContext) and starts to
\* wait for the delay it returns
AskDelay ==
    /\ mode = "backoff"
    /\ retryContext.pc = "ask"
    /\ retryContext' =
          [retryContext EXCEPT
              !.pc = "wait",
              !.previous = retryContext.delay,
              !.delay = nextRetryDelayInMilliseconds(
                            retryContext.previousRetryCount,
                            retryContext.elapsedMilliseconds)]
    /\ UNCHANGED <<mode, pureVars, srvVars, extVars, cliVars, bgVars, enr>>

\* the delay is over and the start that follows fails after duration ms
RetryFails(duration) ==
    /\ mode = "backoff"
    /\ retryContext.pc = "wait"
    /\ retryContext.previousRetryCount < MaxRetries
    /\ retryContext' =
          [retryContext EXCEPT
              !.pc = "ask",
              !.previousRetryCount = @ + 1,
              !.elapsedMilliseconds = @ + retryContext.delay + duration]
    /\ UNCHANGED <<mode, pureVars, srvVars, extVars, cliVars, bgVars, enr>>

\* the delay is over and the start that follows succeeds: the loop ends
RetrySucceeds ==
    /\ mode = "backoff"
    /\ retryContext.pc = "wait"
    /\ retryContext' = [retryContext EXCEPT !.pc = "connected"]
    /\ UNCHANGED <<mode, pureVars, srvVars, extVars, cliVars, bgVars, enr>>

\* the connection is lost again: a new loop with a new retry context
LostAgain ==
    /\ mode = "backoff"
    /\ retryContext.pc = "connected"
    /\ retryContext' = NoRetry
    /\ UNCHANGED <<mode, pureVars, srvVars, extVars, cliVars, bgVars, enr>>

BackoffNext ==
    \/ AskDelay
    \/ \E duration \in AttemptDurations : RetryFails(duration)
    \/ RetrySucceeds
    \/ LostAgain

(***************************************************************************)
(* isQuietHour, called on every start, end and clock of the samples        *)
(***************************************************************************)
\* no merge is followed
NoMerge == [done |-> FALSE]

NotCalled == [called |-> FALSE, background |-> FALSE, client |-> FALSE]

NoJob ==
    [title |-> <<>>, description |-> <<>>, budget |-> <<>>, hiringRate |-> <<>>,
     duration |-> <<>>, registrationDate |-> <<>>]

\* the result of applyFilters as the variables hold it
Verdict(passes) == IF passes THEN "pass" ELSE "reject"

QuietInit ==
    /\ mode = "quiet"
    /\ qhIn \in [start : SampleMinutes \cup {unset}, end : SampleMinutes \cup {unset},
                 now : SampleMinutes]
    /\ qhOut = NotCalled
    /\ flJob = NoJob /\ flSettings = NoCriteria /\ flNow = Clock(2026, 0, 1, FALSE)
    /\ flOut = "none" /\ flPrev = "none"
    /\ enr = NoMerge
    /\ retryContext = NoRetry
    /\ ServerInit
    /\ ExtInit

EvaluateQuietHour ==
    /\ mode = "quiet"
    /\ ~qhOut.called
    /\ qhOut' = [called |-> TRUE,
                 background |-> isQuietHour(QuietSettings(qhIn.start, qhIn.end),
                                            ClockAt(qhIn.now)),
                 client |-> isQuietHourSignalR(QuietSettings(qhIn.start, qhIn.end),
                                               ClockAt(qhIn.now))]
    /\ UNCHANGED <<mode, qhIn, flJob, flSettings, flNow, flOut, flPrev>>
    /\ UNCHANGED <<srvVars, extVars, cliVars, bgVars, enr, retryContext>>

QuietNext == EvaluateQuietHour

QuietSpec == QuietInit /\ [][QuietNext]_vars

(***************************************************************************)
(* applyFilters, called on a listing, then again after each criterion the  *)
(* user enables                                                            *)
(***************************************************************************)
FilterInit ==
    /\ mode = "filter"
    /\ flJob \in SampleJobs
    /\ flSettings = NoCriteria
    /\ flNow \in SampleNows
    /\ flOut = "none" /\ flPrev = "none"
    /\ qhIn = [start |-> unset, end |-> unset, now |-> 0] /\ qhOut = NotCalled
    /\ enr = NoMerge
    /\ retryContext = NoRetry
    /\ ServerInit
    /\ ExtInit

EvaluateFilter ==
    /\ mode = "filter"
    /\ flOut = "none"
    /\ flOut' = Verdict(applyFilters(flJob, flSettings, flNow))
    /\ UNCHANGED <<mode, qhIn, qhOut, flJob, flSettings, flNow, flPrev>>
    /\ UNCHANGED <<srvVars, extVars, cliVars, bgVars, enr, retryContext>>

EnableCriterion ==
    /\ mode = "filter"
    /\ flOut # "none"
    /\ \E c \in Criteria :
        /\ CriterionDisabled(flSettings, c)
        /\ \E v \in EnabledValues(c) :
            /\ flSettings' = [flSettings EXCEPT ![c] = v]
            /\ flOut' = Verdict(applyFilters(flJob, flSettings', flNow))
    /\ flPrev' = flOut
    /\ UNCHANGED <<mode, qhIn, qhOut, flJob, flNow>>
    /\ UNCHANGED <<srvVars, extVars, cliVars, bgVars, enr, retryContext>>

FilterNext == EvaluateFilter \/ EnableCriterion

FilterSpec == FilterInit /\ [][FilterNext]_vars

(***************************************************************************)
(* applyFilters, called once with a single criterion enabled on a listing  *)
(* that carries a single detail                                            *)
(***************************************************************************)
T_0 == <<"$", "0">>

T_1000to2500 ==
    <<"$", "1", ",", "0", "0", "0", " ", "-", " ", "$", "2", ",", "5", "0", "0">>

T_25to50 ==
    <<"$", "2", "5", ".", "5", "0", " ", "-", " ", "$", "5", "0", ".", "0", "0">>

T_50pct == <<"5", "0", "%">>

T_10days == <<"1", "0", " ">> \o W_days

\* a registration date of two parts, one with a month of another language,
\* one with no day number, one with no year number
T_Feb2026 == arabicMonths[2] \o <<" ", "2", "0", "2", "6">>

T_14FebLatin2026 == <<"1", "4", " ", "F", "e", "b", " ", "2", "0", "2", "6">>

T_xxFeb2026 == <<"x", "x", " ">> \o arabicMonths[2] \o <<" ", "2", "0", "2", "6">>

T_14FebXX == <<"1", "4", " ">> \o arabicMonths[2] \o <<" ", "x", "x">>

K_PhpComma == <<"P", "H", "P", ",">>

K_Java == <<"j", "a", "v", "a">>

RuleBudgets == {<<>>, W_unspecified, T_0, T_100, T_500to1000, T_1000to2500, T_25to50}

RuleHiringRates == {<<>>, W_notCalculatedYet, T_46pct, T_50pct, T_85pct}

RuleDurations == {<<>>, W_unspecified, W_oneDay, T_5days, T_10days}

RuleDates == {<<>>, T_14Feb2026, T_Feb2026, T_14FebLatin2026, T_xxFeb2026, T_14FebXX}

RuleKeywords == {K_ApiNet, K_Php, K_PhpComma, K_Java}

\* a listing titled "Web API" with one more field filled in
RuleJob == [NoJob EXCEPT !.title = T_WebApi]

RuleJobs ==
    {[RuleJob EXCEPT !.budget = t] : t \in RuleBudgets}
    \cup {[RuleJob EXCEPT !.hiringRate = t] : t \in RuleHiringRates}
    \cup {[RuleJob EXCEPT !.duration = t] : t \in RuleDurations}
    \cup {[RuleJob EXCEPT !.registrationDate = t] : t \in RuleDates}
    \cup {[RuleJob EXCEPT !.title = t, !.description = d] :
             t \in SampleTitles, d \in SampleDescriptions}

RuleSettings ==
    {[NoCriteria EXCEPT !.minBudget = v] : v \in {26, 500, 750, 2000}}
    \cup {[NoCriteria EXCEPT !.minHiringRate = v] : v \in {47, 50}}
    \cup {[NoCriteria EXCEPT !.maxDuration = v] : v \in {1, 3, 5}}
    \cup {[NoCriteria EXCEPT !.minClientAge = v] : v \in {7, 8, 30}}
    \cup {[NoCriteria EXCEPT !.keywordsInclude = k] : k \in RuleKeywords}
    \cup {[NoCriteria EXCEPT !.keywordsExclude = k] : k \in RuleKeywords}

RuleInit ==
    /\ mode = "rule"
    /\ flJob \in RuleJobs
    /\ flSettings \in RuleSettings
    /\ flNow \in SampleNows
    /\ flOut = "none" /\ flPrev = "none"
    /\ qhIn = [start |-> unset, end |-> unset, now |-> 0] /\ qhOut = NotCalled
    /\ enr = NoMerge
    /\ retryContext = NoRetry
    /\ ServerInit
    /\ ExtInit

EvaluateRule ==
    /\ mode = "rule"
    /\ flOut = "none"
    /\ flOut' = Verdict(applyFilters(flJob, flSettings, flNow))
    /\ UNCHANGED <<mode, qhIn, qhOut, flJob, flSettings, flNow, flPrev>>
    /\ UNCHANGED <<srvVars, extVars, cliVars, bgVars, enr, retryContext>>

RuleNext == EvaluateRule

RuleSpec == RuleInit /\ [][RuleNext]_vars

(***************************************************************************)
(* The programs: the server process, or the extension's service worker     *)
(***************************************************************************)
PureIdle ==
    /\ qhIn = [start |-> unset, end |-> unset, now |-> 0] /\ qhOut = NotCalled
    /\ flJob = NoJob /\ flSettings = NoCriteria /\ flNow = Clock(2026, 0, 1, FALSE)
    /\ flOut = "none" /\ flPrev = "none"

Init ==
    /\ mode \in {"server"} \cup ExtModes
    /\ PureIdle
    /\ enr = NoMerge
    /\ retryContext = NoRetry
    /\ ServerInit
    /\ ExtInit

Next == ServerNext \/ ExtensionNext

Spec == Init /\ [][Next]_vars

\* the server process alone
ServerOnlyInit ==
    /\ mode = "server"
    /\ PureIdle
    /\ enr = NoMerge
    /\ retryContext = NoRetry
    /\ ServerInit
    /\ ExtInit

ServerSpec == ServerOnlyInit /\ [][ServerNext]_vars

(***************************************************************************)
(* The worker alone on the dropping network; the event loop runs every     *)
(* continuation whose promise has settled                                  *)
(***************************************************************************)
FaultsInit ==
    /\ mode = "faults"
    /\ PureIdle
    /\ enr = NoMerge
    /\ retryContext = NoRetry
    /\ ServerInit
    /\ ExtInit

CycleStep(p) ==
    \/ CycleGet(p)
    \/ CycleFetched(p)
    \/ CycleNothingNew(p)
    \/ CycleQuietCheck(p)
    \/ CycleDeep(p)

FaultsNext ==
    \/ \E p \in Cycles :
        \/ AlarmFires(p)
        \/ CheckNow(p)
        \/ CycleStep(p)
        \/ CycleHangs(p)
        \/ CycleThrows(p)
    \/ ClearHistory
    \/ \E interval \in Intervals : updateAlarm(interval)

LiveSpec ==
    FaultsInit /\ [][FaultsNext]_vars /\ \A p \in Cycles : WF_vars(CycleStep(p))

(***************************************************************************)
(* The merge of lines 723-735 (extension) and 86-101 (server), applied to  *)
(* a list-page listing and the fields of its detail page, with the filter  *)
(* before it and after it                                                  *)
(***************************************************************************)
K_Net == <<"n", "e", "t">>

\* a list-page listing: the parsers fill id, title, url and the budget, which
\* may be missing or, on the server, the "unspecified" word
MergeJobs ==
    {[ListJob(1) EXCEPT !.title = t, !.budget = b] :
        t \in SampleTitles, b \in {<<>>, W_unspecified, T_100, T_900}}

\* what a detail page gives: a field its page lacks is empty
MergeDetails ==
    [description : SampleDescriptions, hiringRate : {<<>>, T_46pct, T_85pct},
     status : {<<"o", "p", "e", "n">>}, communications : {<<"2">>},
     duration : SampleDurations, budget : {<<>>, T_500to1000},
     registrationDate : {T_14Feb2026}]

MergeSettings ==
    {NoCriteria, [NoCriteria EXCEPT !.minBudget = 500],
     [NoCriteria EXCEPT !.minHiringRate = 50],
     [NoCriteria EXCEPT !.keywordsInclude = K_Net],
     [NoCriteria EXCEPT !.keywordsExclude = K_Php]}

MergeInit ==
    /\ mode = "merge"
    /\ flJob \in MergeJobs
    /\ flSettings \in MergeSettings
    /\ flNow = SysNow
    /\ flOut = "none" /\ flPrev = "none"
    /\ qhIn = [start |-> unset, end |-> unset, now |-> 0] /\ qhOut = NotCalled
    /\ \E d \in MergeDetails :
        enr = [done |-> FALSE, details |-> d, job |-> flJob, srvJob |-> flJob]
    /\ retryContext = NoRetry
    /\ ServerInit
    /\ ExtInit

\* the cheap pass of lines 675-681 on the listing, then the merge of the
\* extension and of the server, then the deep pass of line 738
MergeDetailFields ==
    /\ mode = "merge"
    /\ ~enr.done
    /\ enr' = [enr EXCEPT !.done = TRUE,
                          !.job = EnrichJob(flJob, enr.details),
                          !.srvJob = SrvEnrich(flJob, enr.details)]
    /\ flPrev' = Verdict(applyFilters(flJob, flSettings, flNow))
    /\ flOut' = Verdict(applyFilters(EnrichJob(flJob, enr.details), flSettings, flNow))
    /\ UNCHANGED <<mode, qhIn, qhOut, flJob, flSettings, flNow>>
    /\ UNCHANGED <<srvVars, extVars, cliVars, bgVars, retryContext>>

MergeNext == MergeDetailFields

MergeSpec == MergeInit /\ [][MergeNext]_vars

\* the SignalR client alone
ClientInit ==
    /\ mode = "client"
    /\ PureIdle
    /\ enr = NoMerge
    /\ retryContext = NoRetry
    /\ ServerInit
    /\ ExtInit

ClientSpec == ClientInit /\ [][ClientNext]_vars

\* the retry loop of the automatic reconnect alone
BackoffInit ==
    /\ mode = "backoff"
    /\ PureIdle
    /\ enr = NoMerge
    /\ retryContext = NoRetry
    /\ ServerInit
    /\ ExtInit

BackoffSpec == BackoffInit /\ [][BackoffNext]_vars

\* the server process on a network where every request settles (HttpClient
\* gives up after its timeout) and Task.Delay ends when the token is cancelled
SrvCycleStep ==
    \/ SrvFetchThrows
    \/ SrvFetched
    \/ SrvEnrichOne
    \/ SrvNotify
    \/ SrvCleanupStep

ShutdownSpec ==
    /\ ServerOnlyInit
    /\ [][ServerNext]_vars
    /\ WF_vars(SrvCycleStep)
    /\ WF_vars(SrvStop)

(***************************************************************************)
(* The two schedulers: the server's loop, whose delay ends and whose       *)
(* cleanup runs, and the browser's alarm, which fires every period         *)
(***************************************************************************)
SchedulerInit ==
    /\ mode \in {"server", "faults"}
    /\ PureIdle
    /\ enr = NoMerge
    /\ retryContext = NoRetry
    /\ ServerInit
    /\ ExtInit

SchedulerNext == ServerNext \/ FaultsNext

SchedulerSpec ==
    /\ SchedulerInit
    /\ [][SchedulerNext]_vars
    /\ WF_vars(SrvStart)
    /\ WF_vars(SrvCleanupStep)
    /\ \A p \in Cycles : WF_vars(AlarmFires(p))

(***************************************************************************)
(* Claims                                                                  *)
(***************************************************************************)
\* the last n elements of seq
LastN(seq, n) ==
    IF Len(seq) <= n THEN seq ELSE SubSeq(seq, Len(seq) - n + 1, Len(seq))

\* the invocations of checkForNewJobs in progress
Running == {p \in Cycles : cyc[p].pc # "idle"}

\* the ids of the new jobs of p whose details are still to be fetched
Pending(p) ==
    IF cyc[p].pc = "saved" THEN Elements(IdsOf(cyc[p].allNewJobs))
    ELSE IF cyc[p].pc = "deep"
    THEN {cyc[p].allNewJobs[i].id : i \in cyc[p].idx..Len(cyc[p].allNewJobs)}
    ELSE {}

\* the ids of the new jobs of p that the deep filter has rejected so far
DeepRejected(p) ==
    IF cyc[p].pc = "deep"
    THEN {cyc[p].allNewJobs[i].id : i \in 1..(cyc[p].idx - 1)}
            \ Elements(IdsOf(cyc[p].qualityJobs))
    ELSE {}

\* the ids handleNewJobs stored for listings its filter rejected
PushRejected ==
    IF push.pc = "saved"
    THEN (Elements(push.seenJobs) \ push.read) \ Elements(IdsOf(push.validJobs))
    ELSE {}

\* the ids of the new jobs of the server cycle that are still to be enriched
SrvPending ==
    IF srvPc = "enrich" THEN {srvJobs[i].id : i \in srvIdx..Len(srvJobs)} ELSE {}

\* C1: no listing id is notified more than once while it is retained in the
\* stored seen list, whatever the interleaving of the cycles and the push handler:
\* no call of showNotification lists an id that is stored and was notified already
C1_NotifiedOnce == [][Elements(shown') \cap notified = {}]_vars

\* C2: a cycle that runs right after a completed cycle, against the same upstream
\* page and the seen set that cycle left, finds no new job and dispatches nothing
C2_Idempotent ==
    (srvPc \in {"enrich", "notify", "cleanup"} /\ srvPrev.known /\ srvPrev.page = srvPage)
        => srvJobs = <<>>

\* C3: at most one scrape cycle is in progress at any time
C3_OneCycle == Cardinality(Running) <= 1

\* C4 as claimed: in every reachable state the stored seen list and the server's
\* seen set hold at most the cap of ids
C4_CapAlways == Len(storedSeen) <= SeenCap /\ HashSetCount(srvSeen) <= SeenCap

\* C4: the stored seen list never exceeds the cap; the server's set is within the
\* cap whenever no cycle is in progress, and during a cycle exceeds it by at most
\* the new jobs of that cycle
C4_CapBetweenCycles ==
    /\ Len(storedSeen) <= SeenCap
    /\ srvPc = "delay" => HashSetCount(srvSeen) <= SeenCap
    /\ HashSetCount(srvSeen) <= SeenCap + Len(srvJobs)

\* C4 witness: the server waits for its next cycle with a full set, after a
\* cleanup that removed ids
C4_Witness ==
    /\ srvPc = "delay"
    /\ HashSetCount(srvSeen) = SeenCap
    /\ srvSeen.free # <<>>

\* C5: eviction removes the ids oldest-first by insertion, after earlier evictions
\* too: between cycles the server retains exactly the most recently added ids
C5_OldestFirst ==
    srvPc = "delay" =>
        Elements(HashSetEnumerate(srvSeen)) = Elements(LastN(srvHistory, SeenCap))

C8_NeverResurfaces ==
    [][/\ \A p \in Cycles :
            (cyc[p].pc = "deep" /\ cyc'[p].pc = "idle")
                => Elements(shown') \cap (suppressed \ cyc[p].early) = {}
       /\ (push.pc = "saved" /\ push'.pc = "idle")
                => Elements(shown') \cap (suppressed \ push.early) = {}]_vars

\* C8: no notification follows a quiet-hours check made inside the window; the
\* ids of the checked batch are in the list saved before the check (unless the cap
\* has trimmed them); and a run notifies no id that was in the seen list it read
C8_QuietHours ==
    /\ ~loudInQuiet
    /\ \A p \in Cycles :
        /\ cyc[p].pc = "saved" =>
            \A id \in Pending(p) :
                SeenIncludes(cyc[p].seenJobs, id) \/ Len(cyc[p].seenJobs) = SeenCap
        /\ Elements(IdsOf(cyc[p].allNewJobs)) \cap cyc[p].read = {}
    /\ Elements(IdsOf(push.validJobs)) \cap push.read = {}

\* C8 witness: quiet hours suppressed a listing, and a cycle that started later
\* and read its id in the seen list has fetched a page that lists it and found
\* nothing new
C8_Witness ==
    \E p \in Cycles : \E id \in suppressed :
        /\ cyc[p].pc = "saved"
        /\ id \in cyc[p].read
        /\ id \in cyc[p].listed
        /\ id \notin cyc[p].early
        /\ cyc[p].allNewJobs = <<>>

\* C9: for every start, end and now in minutes of the day with start # end,
\* now is in quiet hours exactly when start <= now <= end (start < end) or
\* when now >= start or now <= end (start > end); with start or end not
\* configured the answer is always "not in quiet hours".  Both copies of
\* isQuietHour answer so.
C9_QuietHoursMembership ==
    (qhOut.called /\ qhIn.start # qhIn.end) =>
        /\ qhOut.background = QuietExpected(qhIn.start, qhIn.end, qhIn.now)
        /\ qhOut.client = QuietExpected(qhIn.start, qhIn.end, qhIn.now)

\* C9 witness: the window 23:00-07:00 evaluated at 06:30 is quiet
C9_Witness ==
    /\ qhOut.called
    /\ qhIn = [start |-> 1380, end |-> 420, now |-> 390]
    /\ qhOut.background /\ qhOut.client

\* C10: a listing that applyFilters rejects is still rejected after one more
\* criterion is switched from disabled to enabled.
C10_FilterMonotone == (flPrev = "reject") => (flOut = "reject")

\* C10 witness: a rejected listing was evaluated again with one more criterion
C10_Witness ==
    /\ flPrev = "reject" /\ flOut = "reject"
    /\ flSettings.minBudget > 0 /\ flSettings.keywordsInclude # <<>>

(***************************************************************************)
(* The single rules of the filter.  What the sample texts say is written   *)
(* down here by hand, amounts in hundredths.                               *)
(***************************************************************************)
SetMax(S) == CHOOSE x \in S : \A y \in S : y <= x

\* applyFilters has been called with criterion c the only one enabled
RuleEvaluated(c) ==
    /\ mode = "rule"
    /\ flOut # "none"
    /\ ~CriterionDisabled(flSettings, c)
    /\ \A d \in Criteria \ {c} : CriterionDisabled(flSettings, d)

\* the amounts a budget text names, in cents
BudgetAmounts(text) ==
    CASE text = T_0 -> {0}
      [] text = T_100 -> {10000}
      [] text = T_500to1000 -> {50000, 100000}
      [] text = T_1000to2500 -> {100000, 250000}
      [] text = T_25to50 -> {2550, 5000}
      [] OTHER -> {}

\* the leading number of a hiring-rate text, in hundredths of a percent
RateOf(text) ==
    CASE text = T_46pct -> {4667}
      [] text = T_50pct -> {5000}
      [] text = T_85pct -> {8500}
      [] OTHER -> {}

\* the day count a duration text names
DaysOf(text) ==
    CASE text = W_oneDay -> {1}
      [] text = T_5days -> {5}
      [] text = T_10days -> {10}
      [] OTHER -> {}

\* the age in days of an account registered on the date the text names, the
\* time elapsed until now rounded up to whole days
AgeOf(text, now) ==
    IF text = T_14Feb2026
    THEN IF now = Clock(2026, 1, 20, TRUE) THEN {7} ELSE {107}
    ELSE {}

\* the keywords a comma-separated list names, lower-cased
KeywordsOf(text) ==
    CASE text = K_ApiNet -> {<<"a", "p", "i">>, <<"n", "e", "t">>}
      [] text = K_Php -> {<<"p", "h", "p">>}
      [] text = K_PhpComma -> {<<"p", "h", "p">>}
      [] text = K_Java -> {<<"j", "a", "v", "a">>}
      [] OTHER -> {}

\* C11: with a positive minimum budget a listing is rejected exactly when the
\* highest number of its budget text (thousands separators removed) is not
\* zero and below the minimum; an empty budget and a budget text without a
\* number pass for every minimum; the range 500 - 1,000 is judged by 1000.
C11_BudgetRule ==
    RuleEvaluated("minBudget") =>
        LET amounts == BudgetAmounts(flJob.budget)
        IN  (flOut = "reject") <=>
                /\ amounts # {}
                /\ SetMax(amounts) > 0
                /\ SetMax(amounts) < 100 * flSettings.minBudget

\* C11 witness: "$500.00 - $1,000.00" passes a minimum of 750
C11_Witness ==
    /\ RuleEvaluated("minBudget")
    /\ flJob.budget = T_500to1000 /\ flSettings.minBudget = 750
    /\ flOut = "pass"

\* C12: with a positive minimum hiring rate, the "not calculated yet" text is
\* parsed as 0 and the listing rejected; a listing whose leading number is
\* below the minimum is rejected, one whose number is at least the minimum
\* passes.
C12_HiringRateRule ==
    RuleEvaluated("minHiringRate") =>
        /\ flJob.hiringRate = W_notCalculatedYet =>
              /\ parseHiringRate(flJob.hiringRate) = Num(0)
              /\ flOut = "reject"
        /\ \A r \in RateOf(flJob.hiringRate) :
              /\ r < 100 * flSettings.minHiringRate => flOut = "reject"
              /\ r >= 100 * flSettings.minHiringRate => flOut = "pass"

\* C12 witness: the "not calculated yet" text was rejected by a minimum of 47
C12_Witness ==
    /\ RuleEvaluated("minHiringRate")
    /\ flJob.hiringRate = W_notCalculatedYet /\ flSettings.minHiringRate = 47
    /\ flOut = "reject"

\* C13: with a maximum duration a listing is rejected exactly when the day
\* count of its duration text ("one day" counts as 1) exceeds the maximum, a
\* text without a day count passes; with a minimum client age a listing is
\* rejected exactly when the account age in days is below the minimum, and a
\* date of fewer than three parts, with an unknown month or with a day or
\* year that is no number passes.
C13_MissingDataPasses ==
    /\ RuleEvaluated("maxDuration") =>
          LET days == DaysOf(flJob.duration)
          IN  (flOut = "reject") <=>
                  (days # {} /\ SetMax(days) > flSettings.maxDuration)
    /\ RuleEvaluated("minClientAge") =>
          LET age == AgeOf(flJob.registrationDate, flNow)
          IN  (flOut = "reject") <=>
                  (age # {} /\ SetMax(age) < flSettings.minClientAge)

\* C13 witness: a date whose day is no number passed a minimum age, and so
\* did its neighbour states with the other unparseable texts
C13_Witness ==
    /\ RuleEvaluated("minClientAge")
    /\ flJob.registrationDate = T_xxFeb2026 /\ flSettings.minClientAge = 30
    /\ flOut = "pass"

\* C14: with include keywords a listing passes exactly when its lower-cased
\* title plus description contains at least one of the keywords of the
\* comma-separated list; with exclude keywords it is rejected exactly when
\* it contains any of them.
C14_KeywordRules ==
    /\ RuleEvaluated("keywordsInclude") =>
          ((flOut = "pass") <=>
              \E k \in KeywordsOf(flSettings.keywordsInclude) :
                  includes(JobContent(flJob), k))
    /\ RuleEvaluated("keywordsExclude") =>
          ((flOut = "reject") <=>
              \E k \in KeywordsOf(flSettings.keywordsExclude) :
                  includes(JobContent(flJob), k))

(***************************************************************************)
(* Failures of the list fetch and of the detail fetch                      *)
(***************************************************************************)
\* the categories settings enables, by their index in MOSTAQL_URLS
EnabledCategories == {i \in 1..Len(Categories) : Settings[Categories[i]]}

\* the list fetches of a run that gave a page
GotOk(c) == {i \in 1..Len(c.got) : c.got[i].outcome = "ok"}

\* C15: when the list fetch of one enabled category fails (HTTP error,
\* network error, challenge page, parse timeout) that category contributes
\* nothing, and every other enabled category is still fetched, its listings
\* deduplicated and filtered and handed to the dispatch part of the cycle.
C15_CategoryIsolation ==
    \A p \in Cycles :
        LET c == cyc[p]
        IN  (mode = "faults" /\ c.pc \in {"saved", "deep"}) =>
                /\ {c.got[i].cat : i \in 1..Len(c.got)} = EnabledCategories
                /\ Elements(IdsOf(c.allNewJobs)) \subseteq
                       UNION {Elements(c.got[i].page) : i \in GotOk(c)}
                /\ \A i \in GotOk(c) : \A id \in Elements(c.got[i].page) :
                       (id \notin c.read /\ applyFilters(ListJob(id), Settings, SysNow))
                           => id \in Elements(IdsOf(c.allNewJobs))

\* C15 witness: the first category failed with a network error, the listing of
\* the second one is on its way to the notification
C15_Witness ==
    /\ mode = "faults"
    /\ cyc[1].pc = "deep"
    /\ Len(cyc[1].got) = 2
    /\ cyc[1].got[1].outcome = "networkError"
    /\ cyc[1].got[2].outcome = "ok"
    /\ IdsOf(cyc[1].allNewJobs) = cyc[1].got[2].page
    /\ cyc[1].allNewJobs # <<>>

\* C16: a detail fetch that fails or gives nothing neither ends the cycle nor
\* drops the listing: the listing is in the notified batch with the fields of
\* the list page only, and the listings after it are processed.  The server's
\* enrichment loop keeps every new listing likewise.
C16_DetailFailureKeepsListing ==
    [][/\ \A p \in Cycles :
            /\ (cyc[p].pc = "deep" /\ cyc'[p].pc \notin {"deep", "hung"}) =>
                  /\ cyc[p].idx = Len(cyc[p].allNewJobs)
                  /\ cyc'[p].pc = "idle"
                  /\ cyc'[p].undetailed \subseteq Elements(shown')
            /\ (cyc[p].pc = "deep" /\ cyc'[p].pc = "deep") =>
                  \A id \in cyc'[p].undetailed :
                      ListJob(id) \in Elements(cyc'[p].qualityJobs)
       /\ srvPc' \in {"notify", "cleanup"} => IdsOf(srvEnriched') = IdsOf(srvJobs')
       /\ srvPc' = "cleanup" => srvBatch' = IdsOf(srvJobs')
      ]_vars

\* C16 witness: the cycle has returned after notifying a listing whose detail
\* fetch gave null
C16_Witness ==
    /\ cyc[1].pc = "idle"
    /\ cyc[1].undetailed # {}
    /\ cyc[1].undetailed \subseteq Elements(shown)

\* C17: every started cycle eventually returns, whatever list fetches and
\* detail fetches fail, whatever pages do not respond and whatever the filters
\* decide.
C17_CycleReachesDone ==
    \A p \in Cycles : (cyc[p].pc # "idle") ~> (cyc[p].pc = "idle")

(***************************************************************************)
(* Schedulers and hub                                                      *)
(***************************************************************************)
\* C18: a cycle that ends with an error does not stop the scheduler: after a
\* server cycle that met an exception (in fetching, parsing or notifying) the
\* next cycle starts, unless cancellation has been requested; after an
\* invocation of checkForNewJobs that returned from its catch the alarm
\* starts the next one.
C18_SchedulerSurvivesFailure ==
    /\ srvFailed ~> (srvPc = "fetch" \/ srvStopping)
    /\ \A p \in Cycles : (cyc[p].pc = "idle" /\ cyc[p].failed) ~> (cyc[p].pc = "get")

\* C18 witness: a server cycle is running after a cycle that failed, which
\* itself came after cycles that added ids
C18_Witness ==
    /\ srvPc = "fetch"
    /\ srvFailed
    /\ ~srvStopping
    /\ srvHistory # <<>>

C20_ConnectedToCallerOnly ==
    [][/\ \A c \in Conns :
            (c \notin conns /\ c \in conns') =>
                /\ Len(sent') = 1
                /\ sent'[1].event = "Connected"
                /\ sent'[1].target = {c}
                /\ sent'[1].reached = {c}
       /\ \A i \in 1..Len(sent') :
            sent'[i].event = "Connected" =>
                \E c \in Conns : c \notin conns /\ conns' = conns \cup {c}
      ]_vars

\* C20 witness: the second connection has connected while the first is open
C20_Witness ==
    /\ Len(sent) = 1
    /\ sent[1].event = "Connected"
    /\ Cardinality(conns) = 2
    /\ sent[1].target \subseteq conns
    /\ Cardinality(sent[1].target) = 1

\* the fields of a listing that hold text
TextFields ==
    {"title", "budget", "description", "hiringRate", "status", "communications",
     "duration", "registrationDate"}

\* a field holds a value: it is neither empty nor the "unspecified" word
Populated(text) == text # <<>> /\ text # W_unspecified

\* C21: reconnection is bounded: after a lost connection or a failed
\* connect() at most maxReconnectAttempts attempts are made, and
\* reconnectAttempts never exceeds maxReconnectAttempts.
C21_ReconnectBounded ==
    /\ cl.reconnectAttempts <= maxReconnectAttempts
    /\ \A h \in ConnectionIds : cl.hub[h].retries <= maxReconnectAttempts

\* C22: after disconnect() the client stays disconnected until connect() is
\* called from outside: a timer scheduled before disconnect() does not bring
\* the connection back.
C22_DisconnectedIsTerminal ==
    cl.closed => (~cl.isConnected /\ StateOf(cl) = "Disconnected")

\* C23: updateAlarm leaves the seen list and the statistics unchanged, and
\* after it exactly one alarm exists, with the new interval; no other step
\* changes the alarms.
C23_UpdateAlarmFrame ==
    [][/\ \A interval \in Intervals :
            updateAlarm(interval) =>
                /\ storedSeen' = storedSeen
                /\ storedStats' = storedStats
                /\ alarms' = {[name |-> "checkJobs", periodInMinutes |-> interval]}
       /\ alarms' # alarms => (storedSeen' = storedSeen /\ storedStats' = storedStats)
      ]_vars

\* C23 witness: the interval has been changed to 5 minutes after a check
\* that stored ids and counted them
C23_Witness ==
    /\ alarms = {[name |-> "checkJobs", periodInMinutes |-> 5]}
    /\ storedSeen # <<>>
    /\ storedStats > 0

\* C24: once the host has cancelled the token no new cycle starts, and the
\* cycle that was running completes its steps before ExecuteAsync ends.
C24_GracefulCancellation ==
    /\ [][srvStopping => ~(srvPc = "delay" /\ srvPc' = "fetch")]_vars
    /\ [][(srvStopping /\ srvPc = "enrich" /\ srvPc' # "enrich") => srvPc' = "notify"]_vars
    /\ [][(srvStopping /\ srvPc = "notify") => srvPc' \in {"notify", "cleanup"}]_vars
    /\ [][(srvStopping /\ srvPc = "cleanup") => srvPc' \in {"cleanup", "delay"}]_vars
    /\ (srvStopping /\ srvPc # "stopped") ~> (srvPc = "stopped")

\* C24 witness: the token is cancelled and the cycle that was running has
\* enriched its listings and is about to broadcast them
C24_Witness == srvStopping /\ srvPc = "notify" /\ srvEnriched # <<>>

\* C25: the extension makes no request to the job site: no invocation of
\* checkForNewJobs waits for a list page or for a detail page.
C25_NoSiteRequests == \A p \in Cycles : cyc[p].pc \notin {"fetch", "deep"}

\* C26: every listing the server broadcasts has an ASP.NET keyword in its
\* lower-cased title and description.
C26_OnlyAspNetBroadcast ==
    srvBatch # <<>> =>
        \A i \in 1..Len(srvEnriched) : IsAspNetWebApiJob(srvEnriched[i])

\* C27: a detail page that never answers does not stall the cycle: an
\* invocation waiting for the detail page of its i-th listing goes on to the
\* next listing or ends.
C27_DetailTimeout ==
    \A p \in Cycles : \A i \in 1..NumIds :
        (cyc[p].pc = "deep" /\ cyc[p].idx = i)
            ~> (cyc[p].pc = "idle" \/ (cyc[p].pc = "deep" /\ cyc[p].idx > i))

\* C28: a cycle dispatches at most once and only after its last listing has
\* been through the deep pass: the step that calls showNotification ends the
\* invocation at its last listing, and the batch holds every listing collected
\* before, and at most that last listing besides; the server sends
\* NewJobsDetected only from the step after its enrichment loop, with every
\* new listing in the batch.
C28_DispatchOnceAtEnd ==
    [][/\ (shown' # <<>> /\ push' = push) =>
            \E p \in Cycles :
                /\ cyc[p].pc = "deep"
                /\ cyc[p].idx = Len(cyc[p].allNewJobs)
                /\ cyc'[p].pc = "idle"
                /\ {cyc[p].qualityJobs[i].id : i \in 1..Len(cyc[p].qualityJobs)}
                       \subseteq Elements(shown')
                /\ Elements(shown') \ {cyc[p].qualityJobs[i].id :
                                          i \in 1..Len(cyc[p].qualityJobs)}
                       \subseteq {cyc[p].allNewJobs[cyc[p].idx].id}
       /\ \A p \in Cycles :
            (cyc[p].pc = "deep" /\ cyc'[p].pc = "idle") =>
                {cyc[p].qualityJobs[i].id : i \in 1..Len(cyc[p].qualityJobs)}
                    \subseteq Elements(shown')
       /\ (sent' # <<>> /\ sent'[1].event = "NewJobsDetected") =>
            /\ srvPc = "notify"
            /\ Len(srvEnriched) = Len(srvJobs)
            /\ srvPc' = "cleanup"
            /\ Elements(srvBatch') = {srvJobs[i].id : i \in 1..Len(srvJobs)}
      ]_vars

\* C28 witness: a batch of two listings, from two categories, has been shown
C28_Witness == Len(shown) = 2

\* C29: every listing the cheap pass drops is also rejected by the filter on
\* the listing merged with its detail fields.
C29_CheapPassSound ==
    enr.done => (flPrev = "reject" => flOut = "reject")

\* C30: the merge keeps id, title and url, replaces the budget only when the
\* list-page budget was empty or unspecified, and leaves no populated field
\* empty, in the extension and in the server.
C30_MergePreserves ==
    enr.done =>
        \A merged \in {enr.job, enr.srvJob} :
            /\ merged.id = flJob.id
            /\ merged.title = flJob.title
            /\ merged.url = flJob.url
            /\ Populated(flJob.budget) => merged.budget = flJob.budget
            /\ \A f \in TextFields : Populated(flJob[f]) => merged[f] # <<>>

\* C30 witness: a listing with a budget has been merged with details that
\* carry another budget, or a listing without one with details that carry one
C30_Witness ==
    /\ enr.done
    /\ enr.details.budget # <<>>
    /\ \/ Populated(flJob.budget) /\ enr.details.budget # flJob.budget
       \/ flJob.budget = <<>> /\ enr.job.budget = enr.details.budget

\* the write of an invocation of checkForNewJobs: its storage.set is called
Writes(p) == cyc[p].pc \in {"get", "fetch"} /\ cyc'[p].pc = "saved"

\* C33: the stored seen list suffers no lost update: a write of a polling
\* cycle keeps every id the list held just before it (unless the cap is
\* reached) and writes back no id that was removed from the list after the
\* cycle read it, such as the ids of a clearHistory acknowledged meanwhile.
C33_NoLostUpdate ==
    [][\A p \in Cycles :
          Writes(p) =>
              /\ \/ Elements(storedSeen) \subseteq Elements(storedSeen')
                 \/ Len(storedSeen') = SeenCap
              /\ (Elements(storedSeen') \cap cyc[p].read) \subseteq Elements(storedSeen)
      ]_vars

\* C34: a window whose start equals its end follows the non-wrapping rule:
\* now is in quiet hours only when it equals start.  Both copies of
\* isQuietHour answer so.
C34_EqualStartEnd ==
    (qhOut.called /\ qhIn.start = qhIn.end /\ qhIn.start # unset) =>
        /\ qhOut.background = (qhIn.now = qhIn.start)
        /\ qhOut.client = (qhIn.now = qhIn.start)

\* the entries of a comma-separated list joined again
RECURSIVE JoinEntries(_)
JoinEntries(entries) ==
    IF entries = <<>> THEN <<>>
    ELSE IF Len(entries) = 1 THEN entries[1]
    ELSE entries[1] \o <<",">> \o JoinEntries(Tail(entries))

\* a comma-separated list with its empty and blank entries removed
WithoutEmptyEntries(text) ==
    JoinEntries(SelectSeq(split(text, ","), LAMBDA e : trim(e) # <<>>))

\* C35: empty entries of a keyword list have no effect: applyFilters gives
\* the same verdict with the list as configured and with the same list
\* without its empty entries.
C35_EmptyEntriesNoEffect ==
    flOut # "none" =>
        flOut = Verdict(applyFilters(flJob,
                    [flSettings EXCEPT
                        !.keywordsInclude = WithoutEmptyEntries(@),
                        !.keywordsExclude = WithoutEmptyEntries(@)],
                    flNow))

\* no element occurs twice
NoDuplicate(seq) == Cardinality(Elements(seq)) = Len(seq)

\* C36: a listing on the pages of several categories of one cycle is
\* collected once, stored once and counted once: the new jobs of a cycle, the
\* list it stores and the batch it shows hold no id twice, and the day's
\* count grows by the number of distinct new ids.
C36_CollectedOnce ==
    [][/\ NoDuplicate(shown')
       /\ \A p \in Cycles :
            Writes(p) =>
                LET ids == IdsOf(cyc'[p].allNewJobs)
                IN  /\ NoDuplicate(ids)
                    /\ NoDuplicate(storedSeen')
                    /\ StatsFollowed =>
                          storedStats' = cyc'[p].todayCount + Cardinality(Elements(ids))
      ]_vars

\* C36 witness: the pages of two categories showed the same new listing and
\* the cycle has stored it and counted one listing
C36_Witness ==
    \E p \in Cycles :
        /\ cyc[p].pc = "saved"
        /\ Len(cyc[p].got) = 2
        /\ cyc[p].got[1].page # <<>>
        /\ cyc[p].got[1].page = cyc[p].got[2].page
        /\ Len(cyc[p].allNewJobs) = 1
        /\ storedStats = cyc[p].todayCount + 1
        /\ SeenIncludes(storedSeen, cyc[p].allNewJobs[1].id)

\* the delay the policy returns when it is asked first after a loss
FirstDelay == 1000

\* the ceiling of the policy
Ceiling == 60000

DocumentedDelay(previousRetryCount) ==
    IF previousRetryCount = 0 THEN 2000
    ELSE IF previousRetryCount = 1 THEN 10000
    ELSE IF previousRetryCount = 2 THEN 30000
    ELSE 60000

\* C32: the delays follow the documented sequence: 2 s before the 1st
\* retry, 10 s before the 2nd, 30 s before the 3rd, 60 s before the 4th and
\* every later one (0 s being the initial connect, which waits for nothing).
C32_DocumentedSequence ==
    retryContext.delay # null =>
        retryContext.delay = DocumentedDelay(retryContext.previousRetryCount)

\* nothing of the client is pending: no call of connect() waits, no timer is
\* set and no connection is about to call a handler on its own
Settled ==
    /\ \A k \in Calls : cl.calls[k].pc = "idle"
    /\ cl.timers = 0
    /\ \A h \in ConnectionIds : cl.hub[h].state \notin {"Connecting", "Reconnecting"}

\* C37: the flag agrees with the connection: isConnected is true only if
\* this.connection is connected, and when nothing is pending it is true
\* exactly when this.connection is connected.
C37_FlagConsistent ==
    /\ cl.isConnected => StateOf(cl) = "Connected"
    /\ Settled => (cl.isConnected <=> StateOf(cl) = "Connected")
====
